---- MODULE Spec2Model ----
(***************************************************************************)
(* The libretro core `Ruffle` (src/src/core.rs, src/src/core/core.rs) as a *)
(* state machine driven by the callbacks of the host (the frontend).       *)
(* One action per callback of `impl Core for Ruffle`; the host's replies   *)
(* and the external playback engine's answers are the inputs of an action. *)
(*                                                                         *)
(* A panic inside a callback (an unwrap/expect on a missing value) ends    *)
(* the process: the callbacks are entered from the C host and nothing      *)
(* catches the unwind, so `crashed` is terminal.                           *)
(***************************************************************************)
EXTENDS Integers, Sequences, FiniteSets, TLC

VARIABLES
    phase,                        \* where the host is in its start-up protocol
    game_loaded,                  \* the host's view: retro_load_game returned true
    player,                       \* Ruffle::player, the PlayerState sum type
    av_info,                      \* Ruffle::av_info, Option<retro_system_av_info>
    frontend_preferred_hw_render, \* Ruffle::frontend_preferred_hw_render
    queued_events,                \* Ruffle::queued_events, VecDeque<PlayerEvent>
    hw_render_callback,           \* the retro_hw_render_callback registered with the host
    keyboard_callback,            \* the host holds the core's keyboard callback
    crashed,                      \* a callback panicked
    calls,                        \* the calls the last callback made, in order
    last,                         \* the last callback: name, arguments, state it began in, result
    builds,                       \* PlayerBuilder::build calls since the last on_load_game
    exit_ticks,                   \* on_run ticks served in Exiting since it was entered
    exit_notifications,           \* context-lost notifications sent by those ticks
    exit_shutdowns                \* shutdown requests sent by those ticks

\* backend/render/vulkan: the context negotiation the host drives through the
\* callback table, and the render target.
VARIABLES
    physical_devices,             \* what vkEnumeratePhysicalDevices lists: per device, its queue families
    host_gpu,                     \* the gpu the host passes to create_device2; 0 is VK_NULL_HANDLE
    host_surface,                 \* the host passes a surface to create_device2
    global_entry,                 \* global::ENTRY
    global_instance,              \* global::INSTANCE
    global_device,                \* global::DEVICE
    context,                      \* the host's retro_vulkan_context
    negotiated,                   \* the last negotiation callback: name, what failed, what it resolved, result
    target,                       \* the last RetroTextureTarget::new: arguments, result, native objects created
    texture_target,               \* the RetroTextureTarget the program holds, if any
    vulkan_backend,               \* the VulkanWgpuRenderBackend the program holds, if any
    image_views,                  \* every vkCreateImageView the core made, in order, and its vkDestroyImageView calls
    textures,                     \* every texture the graphics layer created for the core, in order
    target_op,                    \* the last operation on the target or the backend
    target_calls                  \* the calls that operation made to the graphics layer, in order

\* backend/storage.rs: the engine's storage backend on the host's filesystem.
VARIABLES
    storage,                      \* the RetroVfsStorageBackend, if one was made
    storage_op                    \* the last storage operation: name, result, filesystem calls made

storage_vars == <<storage, storage_op>>

\* The state of the core proper.
core_vars == <<phase, game_loaded, player, av_info, frontend_preferred_hw_render,
               queued_events, hw_render_callback, keyboard_callback, calls,
               last, builds, exit_ticks, exit_notifications, exit_shutdowns>>

\* The state of the Vulkan negotiation and of the render target.
vulkan_vars == <<physical_devices, host_gpu, host_surface, global_entry,
                 global_instance, global_device, context, negotiated, target,
                 texture_target, vulkan_backend, image_views, textures, target_op,
                 target_calls>>

\* The render target, the backend and the native objects under them.
target_vars == <<target, texture_target, vulkan_backend, image_views, textures, target_op,
                target_calls>>

vars == <<phase, game_loaded, player, av_info, frontend_preferred_hw_render,
          queued_events, hw_render_callback, keyboard_callback, crashed, calls,
          last, builds, exit_ticks, exit_notifications, exit_shutdowns,
          physical_devices, host_gpu, host_surface, global_entry,
          global_instance, global_device, context, negotiated, target,
          texture_target, vulkan_backend, image_views, textures, target_op,
          target_calls, storage, storage_op>>

----------------------------------------------------------------------------
(* Bounds of the model *)

\* The host's preferred-context codes run over 0..MaxHostCode; 0..7 are the
\* known codes and anything above is an unknown one.
MaxHostCode == 8

\* on_keyboard_event is enabled while fewer than MaxQueue events wait.
MaxQueue == 2

\* The host calls on_run at most MaxExitTicks times after the core asked it
\* to shut down.
MaxExitTicks == 2

\* vkEnumeratePhysicalDevices lists at most MaxPhysicalDevices devices.
MaxPhysicalDevices == 2

\* The device's max_texture_dimension_2d is at most MaxTextureDimension; the
\* sizes asked for run from 0 to one more than that.
MaxTextureDimension == 4

\* The core asks for at most MaxImageViews textures, and so for at most as
\* many image views, in one run; the driver hands out the handles
\* 1..MaxImageViews.
MaxImageViews == 3

----------------------------------------------------------------------------
(* Program constants *)

\* core/config.rs: defaults::SAMPLE_RATE; the core options stay at their defaults.
SAMPLE_RATE == 44100

\* backend/audio.rs: RetroAudioBackend::MAX_SAMPLES
MAX_SAMPLES == 8192

\* ash::vk::API_VERSION_1_3 = (1 << 22) | (3 << 12)
API_VERSION_1_3 == 4206592

\* Twips per pixel (swf::Twips::TWIPS_PER_PIXEL), used by Twips::to_pixels.
TWIPS_PER_PIXEL == 20

\* swf::Fixed8 keeps 8 fractional bits: a frame rate is stored times 256.
FIXED8_ONE == 256

----------------------------------------------------------------------------
(* Values *)

ContextTypes ==
    {"NONE", "OPENGL", "OPENGLES2", "OPENGL_CORE", "OPENGLES3",
     "OPENGLES_VERSION", "VULKAN", "DIRECT3D"}

OpenGlTypes ==
    {"OPENGL", "OPENGLES2", "OPENGLES3", "OPENGL_CORE", "OPENGLES_VERSION"}

\* Option::None and Option::Some for the values the model keeps in an Option.
None == [some |-> FALSE]

\* The movies the host may hand to on_load_game: the stage size in twips and
\* the frame rate as Fixed8 bits.  550x400 at 24 fps; a stage that is not a
\* whole number of pixels, at half a frame per second; a 1x1 stage at 60 fps.
Movies ==
    { [width |-> 11000, height |-> 8000, frame_rate |-> 24 * FIXED8_ONE],
      [width |-> 11015, height |-> 8009, frame_rate |-> 128],
      [width |-> 20,    height |-> 20,   frame_rate |-> 60 * FIXED8_ONE] }

\* PlayerEvent::KeyDown / KeyUp of one key.
Events == { [down |-> d] : d \in BOOLEAN }

\* Elapsed times the frame-time callback reports, in microseconds.
Deltas == {16667, 1500}

\* One call made by a callback: its name and its integer arguments.
Call(name, args) == [call |-> name, arg |-> args]

\* The calls of `cs` named `name`.
CallsNamed(cs, name) == SelectSeq(cs, LAMBDA c : c.call = name)

\* The positions in `cs` of the calls named `name`.
Positions(cs, name) == { i \in 1..Len(cs) : cs[i].call = name }

----------------------------------------------------------------------------
(* backend/render.rs: get_preferred_hw_render.                             *)
(* `answer` is the host's reply to RETRO_ENVIRONMENT_GET_PREFERRED_HW_RENDER: *)
(* None, or Some((code, allowed)).                                          *)

KnownPreferred(code) ==
    CASE code = 0 -> "NONE"
      [] code = 1 -> "OPENGL"
      [] code = 2 -> "OPENGLES2"
      [] code = 3 -> "OPENGL_CORE"
      [] code = 4 -> "OPENGLES3"
      [] code = 5 -> "OPENGLES_VERSION"
      [] code = 6 -> "VULKAN"
      [] code = 7 -> "DIRECT3D"

\* A variant that looks at the code before it looks at the permission.
\* The retro_hw_context_type value of a context type.
ContextCode(context_type) == CHOOSE code \in 0..7 : KnownPreferred(code) = context_type

get_preferred_hw_render_code_first(answer) ==
    IF ~answer.some THEN [ok |-> FALSE, err |-> "InvalidEnvironmentCallback"]
    ELSE IF answer.code \notin 0..7
         THEN [ok |-> FALSE, err |-> "UnknownContextType", code |-> answer.code]
    ELSE IF ~answer.allowed THEN [ok |-> FALSE, err |-> "DriverSwitchingNotAvailable"]
    ELSE [ok |-> TRUE, value |-> KnownPreferred(answer.code)]

get_preferred_hw_render(answer) ==
    IF ~answer.some THEN [ok |-> FALSE, err |-> "InvalidEnvironmentCallback"]
    ELSE IF answer.allowed /\ answer.code \in 0..7
         THEN [ok |-> TRUE, value |-> KnownPreferred(answer.code)]
    ELSE IF ~answer.allowed THEN [ok |-> FALSE, err |-> "DriverSwitchingNotAvailable"]
    ELSE [ok |-> FALSE, err |-> "UnknownContextType", code |-> answer.code]

HostAnswers ==
    {None} \cup { [some |-> TRUE, code |-> c, allowed |-> a] :
                    c \in 0..MaxHostCode, a \in BOOLEAN }

\* The host's answer as recorded with the callback that asked: nothing for
\* an absent callback, else the code and the permission (1 allowed, 0 not).
HostAnswerArg(answer) ==
    IF answer.some THEN <<answer.code, IF answer.allowed THEN 1 ELSE 0>> ELSE <<>>

----------------------------------------------------------------------------
(* backend/render.rs: HardwareRenderCallback::set, the request            *)
(* RETRO_ENVIRONMENT_SET_HW_RENDER that on_load_game's enable_hw_render    *)
(* makes.  `reply` is the host's answer: "true", "false" or "none".        *)

\* A variant that announces the preferred type as it is.
PreferredContextType(preferred) == preferred

NormalizedContextType(preferred) ==
    CASE preferred = "OPENGL" -> "OPENGLES2"
      [] preferred \in {"OPENGLES_VERSION", "OPENGL_CORE"} -> "OPENGLES3"
      [] OTHER -> preferred

VersionMajor(preferred) ==
    CASE preferred = "OPENGLES3" -> 3
      [] preferred \in {"OPENGLES2", "OPENGL"} -> 2
      [] preferred = "DIRECT3D" -> 11
      [] preferred = "VULKAN" -> API_VERSION_1_3
      [] OTHER -> 0

VersionMinor(preferred) ==
    CASE preferred = "OPENGLES3" -> 1
      [] OTHER -> 0

RenderCallback(preferred) ==
    [some |-> TRUE,
     context_type |-> NormalizedContextType(preferred),
     version_major |-> VersionMajor(preferred),
     version_minor |-> VersionMinor(preferred),
     context_reset |-> TRUE,
     context_destroy |-> TRUE]

HardwareRenderCallback_set(preferred, reply) ==
    CASE reply = "true" -> [ok |-> TRUE, callback |-> RenderCallback(preferred)]
      [] reply = "false" -> [ok |-> FALSE, err |-> "FailedToSetRenderer", type |-> preferred]
      [] OTHER -> [ok |-> FALSE, err |-> "InvalidEnvironmentCallback"]

----------------------------------------------------------------------------
(* core/core.rs, on_load_game: the values computed from the movie. *)

\* A variant that drops the fraction instead of rounding.
TruncatePixels(twips) == IF twips <= 0 THEN 0 ELSE twips \div TWIPS_PER_PIXEL

\* Twips::to_pixels().round() as u32: the nearest whole pixel, halves away
\* from zero, and 0 for anything negative (the cast saturates).
RoundPixels(twips) ==
    IF twips <= 0 THEN 0
    ELSE (2 * twips + TWIPS_PER_PIXEL) \div (2 * TWIPS_PER_PIXEL)

\* f64::from(Fixed8): the whole part and the 256ths of the value.
Fixed8ToF64(bits) == [int |-> bits \div FIXED8_ONE, frac |-> bits % FIXED8_ONE]

ViewportDimensions(movie) ==
    [width |-> RoundPixels(movie.width), height |-> RoundPixels(movie.height)]

AvInfo(movie) ==
    LET dimensions == ViewportDimensions(movie) IN
    [some |-> TRUE,
     base_width |-> dimensions.width,
     base_height |-> dimensions.height,
     max_width |-> dimensions.width,
     max_height |-> dimensions.height,
     aspect_ratio |-> <<dimensions.width, dimensions.height>>,
     fps |-> Fixed8ToF64(movie.frame_rate),
     sample_rate |-> SAMPLE_RATE]

\* The deferred PlayerBuilder: the movie, the non-graphics backends and the
\* viewport; no renderer yet.
Builder(movie, save_dir) ==
    LET dimensions == ViewportDimensions(movie) IN
    [movie |-> movie,
     audio_sample_rate |-> SAMPLE_RATE,
     viewport |-> <<dimensions.width, dimensions.height>>,
     storage |-> IF save_dir THEN "RetroVfsStorageBackend" ELSE "MemoryStorageBackend",
     renderer |-> "None"]

\* The PlayerState variants.
Uninitialized == [tag |-> "Uninitialized"]
Pending(builder) == [tag |-> "Pending", builder |-> builder]
Active(engine) == [tag |-> "Active", player |-> engine]
Exiting == [tag |-> "Exiting"]

\* The fallible steps of on_load_game, in the order the code takes them.
LoadSteps ==
    <<"set_pixel_format", "enable_frame_time_callback", "enable_hw_render",
      "enable_hw_render_negotiation_interface", "set_input_descriptors",
      "enable_keyboard_callback", "game", "SwfMovie_from_data",
      "RetroVfsStorageBackend_new">>

StepIndex(step) == CHOOSE i \in 1..Len(LoadSteps) : LoadSteps[i] = step

\* What the host and the content may do to one on_load_game call.  Every
\* step ends the call with `?` when it fails and the steps after it are never
\* taken, so a call is described by the first step that fails (if any) and,
\* for the two environment requests with two ways to fail, by the way.
NoFailure == [step |-> "none", how |-> "none"]

LoadFailures ==
    { [step |-> LoadSteps[i], how |-> h] : i \in 1..Len(LoadSteps), h \in {"false", "none"} }

\* The step was taken and did not fail.
Passed(f, step) == f.step = "none" \/ StepIndex(f.step) > StepIndex(step)

LoadError(f) ==
    CASE f.step = "enable_hw_render" ->
            HardwareRenderCallback_set(frontend_preferred_hw_render, f.how).err
      [] f.step = "enable_hw_render_negotiation_interface" ->
            IF f.how = "false" THEN "FailedToSetNegotiationInterface"
            ELSE "InvalidEnvironmentCallback"
      [] f.step = "game" -> "NoGameProvided"
      [] f.step = "SwfMovie_from_data" -> "FailedToLoadSwf"
      [] f.step = "RetroVfsStorageBackend_new" -> "StorageError"
      [] OTHER -> "EnvironmentCallError"

\* What the error carries: FailedToSetRenderer carries a context type.
LoadErrorDetail(f) ==
    IF f.step = "enable_hw_render" /\ f.how = "false"
    THEN <<ContextCode(HardwareRenderCallback_set(frontend_preferred_hw_render, f.how).type)>>
    ELSE <<>>

\* A failure the call can meet: the negotiation interface is installed only
\* for Vulkan, the storage backend is created only when the host names a
\* save directory, and the other steps fail in one way.
CanFail(f, save_dir) ==
    /\ f.step = "enable_hw_render_negotiation_interface"
          => NormalizedContextType(frontend_preferred_hw_render) = "VULKAN"
    /\ f.step = "RetroVfsStorageBackend_new" => save_dir
    /\ f.step \notin {"none", "enable_hw_render", "enable_hw_render_negotiation_interface"}
          => f.how = "false"

\* The environment requests a call makes, up to the failing one.
LoadCalls(f) ==
    LET n == IF f.step = "none" THEN 6
             ELSE IF StepIndex(f.step) > 6 THEN 6 ELSE StepIndex(f.step)
    IN [i \in 1..n |-> Call(LoadSteps[i], <<>>)]

----------------------------------------------------------------------------
(* The state after construction: core.rs, Ruffle::new, before the host has *)
(* called anything.                                                        *)

\* Ruffle::new.
Ruffle_new ==
    /\ phase = "Start"
    /\ game_loaded = FALSE
    /\ player = Uninitialized
    /\ av_info = None
    /\ frontend_preferred_hw_render = "NONE"
    /\ queued_events = <<>>
    /\ hw_render_callback = None
    /\ keyboard_callback = FALSE
    /\ crashed = FALSE
    /\ calls = <<>>
    /\ last = [op |-> "new", arg |-> <<>>, from |-> "Uninitialized", result |-> "Ok",
               detail |-> <<>>]
    /\ builds = 0
    /\ exit_ticks = 0
    /\ exit_notifications = 0
    /\ exit_shutdowns = 0

\* backend/render/vulkan/global.rs: the cells start empty; the host's
\* retro_vulkan_context starts zeroed; no target has been asked for.
NoQueueFamilies == [kind |-> "None"]

ZeroedContext ==
    [device |-> 0, gpu |-> 0, queue |-> 0, queue_family_index |-> 0,
     presentation_queue |-> 0, presentation_queue_family_index |-> 0]

VulkanStatics ==
    /\ global_entry = None
    /\ global_instance = None
    /\ global_device = None
    /\ context = ZeroedContext
    /\ negotiated = [op |-> "none", failed |-> "none", error |-> "none", gpu |-> 0,
                     families |-> NoQueueFamilies, wrapped |-> FALSE,
                     queue_create_infos |-> <<>>, result |-> 0]

NoTarget ==
    /\ target = [size |-> <<0, 0>>, limit |-> 0, result |-> "none",
                 textures |-> 0, image_views |-> 0]
    /\ texture_target = None
    /\ vulkan_backend = None
    /\ image_views = <<>>
    /\ textures = <<>>
    /\ target_op = [op |-> "none", arg |-> <<>>, result |-> "none"]
    /\ target_calls = <<>>

\* The core on a host that never negotiates a Vulkan device.
Init ==
    /\ Ruffle_new
    /\ VulkanStatics
    /\ NoTarget
    /\ physical_devices = <<>>
    /\ host_gpu = 0
    /\ host_surface = FALSE
    /\ storage = None
    /\ storage_op = [op |-> "none", name |-> <<>>, result |-> "none", calls |-> <<>>,
                   close |-> "missing"]

\* A callback panics: the process ends where it stands.
Panic(op) ==
    /\ crashed' = TRUE
    /\ last' = [op |-> op, arg |-> <<>>, from |-> player.tag, result |-> "Panic",
                detail |-> <<>>]
    /\ UNCHANGED <<phase, game_loaded, player, av_info, frontend_preferred_hw_render,
                   queued_events, hw_render_callback, keyboard_callback, calls,
                   builds, exit_ticks, exit_notifications, exit_shutdowns>>

\* What a callback leaves behind about itself; `detail` is what the error it
\* returned carries, as integers.
ReturnedWith(op, arg, result, detail, made) ==
    /\ last' = [op |-> op, arg |-> arg, from |-> player.tag, result |-> result,
                detail |-> detail]
    /\ calls' = made
    /\ crashed' = FALSE

Returned(op, arg, result, made) == ReturnedWith(op, arg, result, <<>>, made)

----------------------------------------------------------------------------
(* core/core.rs: on_set_environment.  It panics when the host refuses the  *)
(* VFS interface or hands over no environment callback.                    *)

on_set_environment ==
    /\ ~crashed
    /\ UNCHANGED <<vulkan_vars, storage_vars>>
    /\ phase = "Start"
    /\ \E vfs_enabled \in BOOLEAN, callback_valid \in BOOLEAN :
          IF vfs_enabled /\ callback_valid
          THEN /\ phase' = "EnvironmentSet"
               /\ Returned("on_set_environment", <<>>, "Ok",
                           <<Call("set_support_no_game", <<0>>),
                             Call("enable_vfs_interface", <<3>>),
                             Call("get_vfs_interface", <<3>>),
                             Call("set_controller_info", <<>>)>>)
               /\ UNCHANGED <<game_loaded, player, av_info, frontend_preferred_hw_render,
                              queued_events, hw_render_callback, keyboard_callback,
                              builds, exit_ticks, exit_notifications, exit_shutdowns>>
          ELSE Panic("on_set_environment")

(* core/core.rs: on_init.  The host's preference is read once and the       *)
(* result is unwrapped: any error of get_preferred_hw_render is a panic.    *)

on_init ==
    /\ ~crashed
    /\ UNCHANGED <<vulkan_vars, storage_vars>>
    /\ phase = "EnvironmentSet"
    /\ \E answer \in HostAnswers :
          LET preferred == get_preferred_hw_render(answer) IN
          IF preferred.ok
          THEN /\ frontend_preferred_hw_render' = preferred.value
               /\ phase' = "Initialized"
               /\ Returned("on_init", HostAnswerArg(answer), "Ok",
                           <<Call("get_preferred_hw_render", <<>>)>>)
               /\ UNCHANGED <<game_loaded, player, av_info, queued_events,
                              hw_render_callback, keyboard_callback,
                              builds, exit_ticks, exit_notifications, exit_shutdowns>>
          ELSE /\ crashed' = TRUE
               /\ last' = [op |-> "on_init", arg |-> HostAnswerArg(answer),
                           from |-> player.tag, result |-> preferred.err,
                           detail |-> IF preferred.err = "UnknownContextType"
                                      THEN <<preferred.code>> ELSE <<>>]
               /\ calls' = <<Call("get_preferred_hw_render", <<>>)>>
               /\ UNCHANGED <<phase, game_loaded, player, av_info,
                              frontend_preferred_hw_render, queued_events,
                              hw_render_callback, keyboard_callback,
                              builds, exit_ticks, exit_notifications, exit_shutdowns>>

----------------------------------------------------------------------------
(* core/core.rs: on_load_game.  The host calls it once it has initialised  *)
(* the core and holds no game.                                             *)

\* A variant that leaves av_info for later.
LoadedAvInfoUnset(f, movie) == av_info

\* av_info after the call: assigned once the movie is parsed, before the
\* storage backend is created.
LoadedAvInfo(f, movie) ==
    IF Passed(f, "SwfMovie_from_data") THEN AvInfo(movie) ELSE av_info

\* player after the call: assigned at the very end.
LoadedPlayer(f, movie, save_dir) ==
    IF f.step = "none" THEN Pending(Builder(movie, save_dir)) ELSE player

on_load_game ==
    /\ ~crashed
    /\ UNCHANGED <<vulkan_vars, storage_vars>>
    /\ phase = "Initialized"
    /\ ~game_loaded
    /\ \E f \in LoadFailures \cup {NoFailure}, movie \in Movies, save_dir \in BOOLEAN :
          /\ CanFail(f, save_dir)
          /\ hw_render_callback' =
                IF Passed(f, "enable_hw_render")
                THEN HardwareRenderCallback_set(frontend_preferred_hw_render, "true").callback
                ELSE hw_render_callback
          /\ keyboard_callback' =
                IF Passed(f, "enable_keyboard_callback") THEN TRUE ELSE keyboard_callback
          /\ av_info' = LoadedAvInfo(f, movie)
          /\ player' = LoadedPlayer(f, movie, save_dir)
          /\ game_loaded' = (f.step = "none")
          /\ builds' = 0
          /\ exit_ticks' = 0
          /\ exit_notifications' = 0
          /\ exit_shutdowns' = 0
          /\ ReturnedWith("on_load_game", <<movie.width, movie.height, movie.frame_rate>>,
                          IF f.step = "none" THEN "Ok" ELSE LoadError(f),
                          IF f.step = "none" THEN <<>> ELSE LoadErrorDetail(f),
                          LoadCalls(f))
          /\ UNCHANGED <<phase, frontend_preferred_hw_render, queued_events>>

(* core/core.rs: on_unload_game. *)

\* A variant that leaves a player that is shutting down as it is.
UnloadedKeepsExiting == IF player.tag = "Exiting" THEN player ELSE Uninitialized

\* The state on_unload_game assigns.
Unloaded == Uninitialized

on_unload_game ==
    /\ ~crashed
    /\ UNCHANGED <<vulkan_vars, storage_vars>>
    /\ game_loaded
    /\ player' = Unloaded
    /\ game_loaded' = FALSE
    /\ Returned("on_unload_game", <<>>, "Ok", <<>>)
    /\ UNCHANGED <<phase, av_info, frontend_preferred_hw_render, queued_events,
                   hw_render_callback, keyboard_callback,
                   builds, exit_ticks, exit_notifications, exit_shutdowns>>

----------------------------------------------------------------------------
(* core/core.rs: finalize_player, called by on_hw_context_reset in Pending. *)

\* What the host and the graphics layer answer during one finalization: the
\* host filled in get_proc_address (GL), the host hands out its Vulkan render
\* interface, the native objects can be wrapped into a device, and the
\* render target can be created.
FinalizeInputs ==
    [get_proc_address : BOOLEAN, render_interface : BOOLEAN,
     wrap : BOOLEAN, target : BOOLEAN]

\* PlayerBuilder::build: the running engine.  The engine hands the movie's
\* frame rate to the audio backend (AudioBackend::set_frame_rate).
Build(builder) ==
    [movie |-> builder.movie,
     renderer |-> builder.renderer,
     storage |-> builder.storage,
     audio_sample_rate |-> builder.audio_sample_rate,
     audio_fps |-> Fixed8ToF64(builder.movie.frame_rate)]

WithRenderer(builder, renderer) == [builder EXCEPT !.renderer = renderer]

\* A variant that renders in software when the context type is not handled.
CreateRendererWithFallback(context_type, hw) ==
    CASE context_type \in OpenGlTypes ->
            IF ~hw.get_proc_address THEN [kind |-> "Panic"]
            ELSE IF ~hw.wrap THEN [kind |-> "Err", err |-> "WrapError"]
            ELSE IF ~hw.target THEN [kind |-> "Err", err |-> "RenderTargetError"]
            ELSE [kind |-> "Ok", renderer |-> "OpenGlWgpuRenderBackend"]
      [] context_type = "VULKAN" ->
            IF ~hw.render_interface
            THEN [kind |-> "Err", err |-> "FailedToGetRenderInterface"]
            ELSE IF ~hw.wrap THEN [kind |-> "Err", err |-> "WrapError"]
            ELSE IF ~hw.target THEN [kind |-> "Err", err |-> "RenderTargetError"]
            ELSE [kind |-> "Ok", renderer |-> "VulkanWgpuRenderBackend"]
      [] OTHER -> [kind |-> "Ok", renderer |-> "SoftwareRenderBackend"]

\* The renderer for the registered context type, or the error.
CreateRenderer(context_type, hw) ==
    CASE context_type \in OpenGlTypes ->
            IF ~hw.get_proc_address THEN [kind |-> "Panic"]
            ELSE IF ~hw.wrap THEN [kind |-> "Err", err |-> "WrapError"]
            ELSE IF ~hw.target THEN [kind |-> "Err", err |-> "RenderTargetError"]
            ELSE [kind |-> "Ok", renderer |-> "OpenGlWgpuRenderBackend"]
      [] context_type = "VULKAN" ->
            IF ~hw.render_interface
            THEN [kind |-> "Err", err |-> "FailedToGetRenderInterface"]
            ELSE IF ~hw.wrap THEN [kind |-> "Err", err |-> "WrapError"]
            ELSE IF ~hw.target THEN [kind |-> "Err", err |-> "RenderTargetError"]
            ELSE [kind |-> "Ok", renderer |-> "VulkanWgpuRenderBackend"]
      [] OTHER -> [kind |-> "Err", err |-> "UnsupportedHardwareContext",
                   type |-> context_type]

finalize_player(builder, hw) ==
    IF ~av_info.some \/ ~hw_render_callback.some THEN [kind |-> "Panic"]
    ELSE LET r == CreateRenderer(hw_render_callback.context_type, hw) IN
         IF r.kind = "Ok"
         THEN [kind |-> "Ok", player |-> Build(WithRenderer(builder, r.renderer))]
         ELSE r

----------------------------------------------------------------------------
(* core/core.rs: on_hw_context_reset and on_hw_context_destroyed, the two  *)
(* callbacks registered in the retro_hw_render_callback.                   *)

\* A variant that keeps an Active player running over a reset.
ResetOfActiveKeepsRunning == player

\* The state an Active player is put in when its context is reset.
ResetOfActive == Exiting

\* A variant that treats a failed finalization as fatal for the session.
ResetFailedExits == Exiting

\* The state a failed finalization leaves.
ResetFailed == Uninitialized

\* A variant that leaves the builder in place next to the engine it built.
FinalizedKeepsPending(builder, engine) == Pending(builder)

\* The state a successful finalization leaves: the engine replaces the
\* Pending cell the builder was taken from.
Finalized(builder, engine) == Active(engine)

\* A variant that asks the host to shut down whenever a context callback
\* arrives in a state it does not apply to.
IgnoredCallsShutdown == <<Call("shutdown", <<>>)>>

\* The calls a context callback makes in a state it does not apply to: it
\* logs a warning and calls nothing.
IgnoredCalls == <<>>

on_hw_context_reset ==
    /\ ~crashed
    /\ UNCHANGED <<vulkan_vars, storage_vars>>
    /\ hw_render_callback.some
    /\ \E hw \in FinalizeInputs :
          CASE player.tag = "Active" ->
                  /\ player' = ResetOfActive
                  /\ Returned("on_hw_context_reset", <<>>, "Ok", <<Call("shutdown", <<>>)>>)
                  /\ UNCHANGED <<phase, game_loaded, av_info, frontend_preferred_hw_render,
                                 queued_events, hw_render_callback, keyboard_callback,
                                 builds, exit_ticks, exit_notifications, exit_shutdowns>>
            [] player.tag = "Pending" ->
                  LET r == finalize_player(player.builder, hw) IN
                  CASE r.kind = "Panic" -> Panic("on_hw_context_reset")
                    [] r.kind = "Ok" ->
                          /\ player' = Finalized(player.builder, r.player)
                          /\ builds' = builds + 1
                          /\ Returned("on_hw_context_reset", <<>>, "Ok", <<>>)
                          /\ UNCHANGED <<phase, game_loaded, av_info,
                                         frontend_preferred_hw_render, queued_events,
                                         hw_render_callback, keyboard_callback,
                                         exit_ticks, exit_notifications, exit_shutdowns>>
                    [] OTHER ->
                          /\ player' = ResetFailed
                          /\ ReturnedWith("on_hw_context_reset", <<>>, r.err,
                                          IF r.err = "UnsupportedHardwareContext"
                                          THEN <<ContextCode(r.type)>> ELSE <<>>, <<>>)
                          /\ UNCHANGED <<phase, game_loaded, av_info,
                                         frontend_preferred_hw_render, queued_events,
                                         hw_render_callback, keyboard_callback, builds,
                                         exit_ticks, exit_notifications, exit_shutdowns>>
            [] OTHER ->
                  /\ Returned("on_hw_context_reset", <<>>, "Warned", IgnoredCalls)
                  /\ UNCHANGED <<phase, game_loaded, player, av_info,
                                 frontend_preferred_hw_render, queued_events,
                                 hw_render_callback, keyboard_callback,
                                 builds, exit_ticks, exit_notifications, exit_shutdowns>>

\* A variant that only changes the state.
DestroyedCallsNone == <<>>

\* The calls on_hw_context_destroyed makes to the host for an Active player.
DestroyedCalls == <<Call("shutdown", <<>>)>>

on_hw_context_destroyed ==
    /\ ~crashed
    /\ UNCHANGED <<vulkan_vars, storage_vars>>
    /\ hw_render_callback.some
    /\ IF player.tag = "Active"
       THEN /\ player' = Exiting
            /\ Returned("on_hw_context_destroyed", <<>>, "Ok", DestroyedCalls)
       ELSE /\ player' = player
            /\ Returned("on_hw_context_destroyed", <<>>, "Warned", IgnoredCalls)
    /\ UNCHANGED <<phase, game_loaded, av_info, frontend_preferred_hw_render,
                   queued_events, hw_render_callback, keyboard_callback,
                   builds, exit_ticks, exit_notifications, exit_shutdowns>>

----------------------------------------------------------------------------
(* core/core.rs: on_keyboard_event appends to the queue. *)

\* A PlayerEvent as an argument of a recorded call: 1 KeyDown, 0 KeyUp.
EventCode(e) == IF e.down THEN 1 ELSE 0

on_keyboard_event ==
    /\ ~crashed
    /\ UNCHANGED <<vulkan_vars, storage_vars>>
    /\ keyboard_callback
    /\ Len(queued_events) < MaxQueue
    /\ \E e \in Events :
          /\ queued_events' = Append(queued_events, e)
          /\ Returned("on_keyboard_event", <<EventCode(e)>>, "Ok", <<>>)
    /\ UNCHANGED <<phase, game_loaded, player, av_info, frontend_preferred_hw_render,
                   hw_render_callback, keyboard_callback,
                   builds, exit_ticks, exit_notifications, exit_shutdowns>>

----------------------------------------------------------------------------
(* core/core.rs: on_options_changed, on_write_audio and on_audio_set_state. *)
(* The host may call them at any time once the core is initialised.         *)

\* The core options on_options_changed reads from the host, in the order it
\* reads them.
OptionKeys ==
    <<"ruffle_autoplay", "ruffle_letterbox", "ruffle_max_execution_duration",
      "ruffle_msaa", "ruffle_warn_on_unsupported_content",
      "ruffle_file_access_policy", "ruffle_web_browser_access",
      "ruffle_audio_sample_rate", "ruffle_load_behavior">>

\* The calls of on_options_changed: every option is read; an Active player is
\* handed the letterbox and the execution limit again.  The host's variables
\* hold the defaults, so the configuration is assigned the values it has.
OptionsChanged(state) ==
    [i \in 1..Len(OptionKeys) |-> Call("get_variable", <<i>>)]
        \o (IF state.tag = "Active"
            THEN <<Call("set_letterbox", <<>>), Call("set_max_execution_duration", <<>>)>>
            ELSE <<>>)

on_options_changed ==
    /\ ~crashed
    /\ UNCHANGED <<vulkan_vars, storage_vars>>
    /\ phase = "Initialized"
    /\ Returned("on_options_changed", <<>>, "Ok", OptionsChanged(player))
    /\ UNCHANGED <<phase, game_loaded, player, av_info, frontend_preferred_hw_render,
                   queued_events, hw_render_callback, keyboard_callback,
                   builds, exit_ticks, exit_notifications, exit_shutdowns>>

\* The length of the zeroed buffer on_write_audio hands to the host.
RESAMPLED_SAMPLES == 2048

\* A variant that hands the buffer over in every state.
WriteAudioAlways(state) == <<Call("batch_audio_samples", <<RESAMPLED_SAMPLES>>)>>

\* The calls of on_write_audio: a batch for an Active player, else nothing.
WriteAudio(state) ==
    IF state.tag = "Active"
    THEN <<Call("batch_audio_samples", <<RESAMPLED_SAMPLES>>)>>
    ELSE <<>>

on_write_audio ==
    /\ ~crashed
    /\ UNCHANGED <<vulkan_vars, storage_vars>>
    /\ phase = "Initialized"
    /\ Returned("on_write_audio", <<>>, "Ok", WriteAudio(player))
    /\ UNCHANGED <<phase, game_loaded, player, av_info, frontend_preferred_hw_render,
                   queued_events, hw_render_callback, keyboard_callback,
                   builds, exit_ticks, exit_notifications, exit_shutdowns>>

\* The argument of on_audio_set_state as recorded: 1 enabled, 0 disabled.
EnabledCode(enabled) == IF enabled THEN 1 ELSE 0

on_audio_set_state ==
    /\ ~crashed
    /\ UNCHANGED <<vulkan_vars, storage_vars>>
    /\ phase = "Initialized"
    /\ \E enabled \in BOOLEAN :
          IF player.tag = "Active"
          THEN Returned("on_audio_set_state", <<EnabledCode(enabled)>>, "Ok",
                        <<Call(IF enabled THEN "play" ELSE "pause", <<>>)>>)
          ELSE Returned("on_audio_set_state", <<EnabledCode(enabled)>>, "Warned", <<>>)
    /\ UNCHANGED <<phase, game_loaded, player, av_info, frontend_preferred_hw_render,
                   queued_events, hw_render_callback, keyboard_callback,
                   builds, exit_ticks, exit_notifications, exit_shutdowns>>

----------------------------------------------------------------------------
(* core/core.rs: on_run and the helpers it calls. *)

\* A variant that hands the microseconds over as milliseconds.
TickMicroseconds(delta_us) == <<delta_us, 0>>

\* The elapsed time handed to Player::tick, (delta as f64) / 1000.0: whole
\* milliseconds and the thousandths of a millisecond left over.
TickMilliseconds(delta_us) == <<delta_us \div 1000, delta_us % 1000>>

\* handle_input: poll, read the mouse (five reads here, seven in
\* MouseState::from_context; the argument is the RETRO_DEVICE_ID_MOUSE_* id),
\* then hand each queued event to the player, oldest first.
MouseReads ==
    [i \in 1..12 |->
        Call("get_input_state", << <<2, 3, 6, 5, 4, 0, 1, 2, 3, 6, 5, 4>>[i] >>)]

\* A variant that hands the queued events over newest first.
handle_input_newest_first(events) ==
    <<Call("poll_input", <<>>)>> \o MouseReads
        \o [i \in 1..Len(events) |->
              Call("handle_event", <<EventCode(events[Len(events) + 1 - i])>>)]

handle_input(events) ==
    <<Call("poll_input", <<>>)>> \o MouseReads
        \o [i \in 1..Len(events) |-> Call("handle_event", <<EventCode(events[i])>>)]

\* backend/render/vulkan/render_interface.rs, VulkanRenderInterface::set_image:
\* the host's set_image with the descriptor's view, the number of semaphores,
\* a pointer to them (0 is null, passed when there are none) and the source
\* queue family.  Nothing in on_run or in the helpers it calls reaches it.
set_image(image, semaphores, src_queue_family) ==
    <<Call("set_image", <<image.image_view, Len(semaphores),
                          IF semaphores # <<>> THEN 1 ELSE 0, src_queue_family>>)>>

\* render_graphics: render when the engine asks for it, then present.
render_graphics(needs_render) ==
    (IF needs_render THEN <<Call("render", <<>>)>> ELSE <<>>)
        \o <<Call("draw_hardware_frame", <<av_info.max_width, av_info.max_height, 0>>)>>

\* backend/audio.rs, RetroAudioBackend::current_samples: nothing while the
\* frame rate is below one frame per second, else the samples of one frame.
current_samples(engine) ==
    IF engine.audio_fps.int < 1 THEN None
    ELSE LET num_samples == (engine.audio_sample_rate \div engine.audio_fps.int) * 2 IN
         [some |-> TRUE,
          len |-> IF num_samples < MAX_SAMPLES THEN num_samples ELSE MAX_SAMPLES]

send_audio(engine) ==
    LET samples == current_samples(engine) IN
    IF samples.some THEN <<Call("batch_audio_samples", <<samples.len>>)>> ELSE <<>>

\* The calls of one tick of an Active player that carries an elapsed time.
ActiveTick(engine, delta_us, needs_render) ==
    handle_input(queued_events)
        \o <<Call("tick", TickMilliseconds(delta_us))>>
        \o render_graphics(needs_render)
        \o send_audio(engine)

\* notify_context_lost, then the shutdown request.
ExitingTick ==
    <<Call("set_message_ext", <<>>), Call("shutdown", <<>>)>>

RunInputs ==
    { [delta |-> d, needs_render |-> n] :
        d \in {None} \cup { [some |-> TRUE, us |-> us] : us \in Deltas }, n \in BOOLEAN }

\* The arguments of a tick as recorded: the elapsed microseconds (none when
\* the host gave no frame time) and whether the engine asks for a render.
RunArg(in) ==
    (IF in.delta.some THEN <<in.delta.us>> ELSE <<>>)
        \o <<IF in.needs_render THEN 1 ELSE 0>>

on_run ==
    /\ ~crashed
    /\ UNCHANGED <<vulkan_vars, storage_vars>>
    /\ game_loaded
    /\ player.tag = "Exiting" => exit_ticks < MaxExitTicks
    /\ \E in \in RunInputs :
          CASE player.tag = "Exiting" ->
                  /\ exit_ticks' = exit_ticks + 1
                  /\ exit_notifications' =
                        exit_notifications + Len(CallsNamed(ExitingTick, "set_message_ext"))
                  /\ exit_shutdowns' =
                        exit_shutdowns + Len(CallsNamed(ExitingTick, "shutdown"))
                  /\ Returned("on_run", RunArg(in), "Ok", ExitingTick)
                  /\ UNCHANGED <<phase, game_loaded, player, av_info,
                                 frontend_preferred_hw_render, queued_events,
                                 hw_render_callback, keyboard_callback, builds>>
            [] player.tag = "Active" /\ in.delta.some ->
                  IF ~av_info.some THEN Panic("on_run")
                  ELSE /\ queued_events' = <<>>
                       /\ Returned("on_run", RunArg(in), "Ok",
                                   ActiveTick(player.player, in.delta.us, in.needs_render))
                       /\ UNCHANGED <<phase, game_loaded, player, av_info,
                                      frontend_preferred_hw_render, hw_render_callback,
                                      keyboard_callback, builds, exit_ticks,
                                      exit_notifications, exit_shutdowns>>
            [] OTHER ->
                  /\ Returned("on_run", RunArg(in), "Idle", <<>>)
                  /\ UNCHANGED <<phase, game_loaded, player, av_info,
                                 frontend_preferred_hw_render, queued_events,
                                 hw_render_callback, keyboard_callback,
                                 builds, exit_ticks, exit_notifications, exit_shutdowns>>

----------------------------------------------------------------------------
(* backend/render/vulkan/negotiation.rs: the callbacks the core puts in    *)
(* retro_hw_render_context_negotiation_interface_vulkan.  The host calls   *)
(* them while it sets up its device; they keep what they make in the cells *)
(* of global.rs.  A host step that can fail is named by the call it makes. *)

\* A queue family of a physical device: whether its flags contain GRAPHICS
\* and COMPUTE, and what vkGetPhysicalDeviceSurfaceSupportKHR answers for it
\* and the host's surface: "true", "false" or "error".
QueueFamilyProperties(gc, present) == [gc |-> gc, present |-> present]

\* The queue families a physical device may list, in the order it lists them.
QueueFamilyLayouts ==
    { <<QueueFamilyProperties(TRUE, "true")>>,
      <<QueueFamilyProperties(TRUE, "false")>>,
      <<QueueFamilyProperties(FALSE, "true")>>,
      <<QueueFamilyProperties(TRUE, "false"), QueueFamilyProperties(FALSE, "true")>>,
      <<QueueFamilyProperties(TRUE, "false"), QueueFamilyProperties(FALSE, "error")>>,
      <<QueueFamilyProperties(TRUE, "false"), QueueFamilyProperties(TRUE, "true"),
        QueueFamilyProperties(TRUE, "true")>>,
      <<QueueFamilyProperties(FALSE, "true"), QueueFamilyProperties(TRUE, "false"),
        QueueFamilyProperties(TRUE, "false"), QueueFamilyProperties(FALSE, "true")>> }

\* What vkEnumeratePhysicalDevices may list.
Enumerations ==
    UNION { [1..n -> QueueFamilyLayouts] : n \in 0..MaxPhysicalDevices }

\* The first element of an iteration over the positions S (find_map, [0]).
First(S) == CHOOSE i \in S : \A j \in S : i <= j

\* util.rs: the QueueFamilies variants, holding family indices (from 0).
Single(family) == [kind |-> "Single", family |-> family]
Split(graphics_compute, present) ==
    [kind |-> "Split", graphics_compute |-> graphics_compute, present |-> present]
GraphicsComputeOnly(family) == [kind |-> "GraphicsComputeOnly", family |-> family]

\* util.rs: QueueFamilies::queue_family_index.
queue_family_index(families) ==
    IF families.kind = "Split" THEN families.graphics_compute ELSE families.family

\* util.rs: QueueFamilies::presentation_queue_family_index.
presentation_queue_family_index(families) ==
    CASE families.kind = "Single" -> families.family
      [] families.kind = "Split" -> families.present
      [] OTHER -> 0

\* vkGetDeviceQueue(family, 0): a handle that is not null and names the family.
get_device_queue(family) == family + 1

\* util.rs: Queues::queue and Queues::presentation_queue of Queues::new.
queue(families) == get_device_queue(queue_family_index(families))

\* A variant that presents on the graphics queue whatever the selection.
presentation_queue_is_queue(families) == queue(families)

presentation_queue(families) ==
    IF families.kind = "GraphicsComputeOnly" THEN 0
    ELSE get_device_queue(presentation_queue_family_index(families))

\* A variant that keeps the last family with GRAPHICS and COMPUTE.
select_last_queue_family(queue_families) ==
    LET found == { i \in 1..Len(queue_families) : queue_families[i].gc } IN
    IF found = {} THEN [ok |-> FALSE, err |-> "NoAcceptableQueueFamily"]
    ELSE [ok |-> TRUE, index |-> (CHOOSE i \in found : \A j \in found : j <= i) - 1]

\* select_queue_family: the first family with GRAPHICS and COMPUTE.
select_queue_family(queue_families) ==
    LET found == { i \in 1..Len(queue_families) : queue_families[i].gc } IN
    IF found = {} THEN [ok |-> FALSE, err |-> "NoAcceptableQueueFamily"]
    ELSE [ok |-> TRUE, index |-> First(found) - 1]

\* A variant that settles for a graphics and compute family when the surface
\* cannot be presented to.
select_queue_families_without_present(queue_families) ==
    LET single == { i \in 1..Len(queue_families) :
                      queue_families[i].gc /\ queue_families[i].present # "false" }
        presenting == { i \in 1..Len(queue_families) :
                          queue_families[i].present # "false" }
        queue_family == select_queue_family(queue_families)
    IN IF single # {}
       THEN IF queue_families[First(single)].present = "error"
            THEN [ok |-> FALSE, err |-> "VulkanError"]
            ELSE [ok |-> TRUE, families |-> Single(First(single) - 1)]
       ELSE IF ~queue_family.ok THEN queue_family
       ELSE IF presenting = {}
            THEN [ok |-> TRUE, families |-> GraphicsComputeOnly(queue_family.index)]
       ELSE IF queue_families[First(presenting)].present = "error"
            THEN [ok |-> FALSE, err |-> "VulkanError"]
       ELSE [ok |-> TRUE,
             families |-> Split(queue_family.index, First(presenting) - 1)]

\* select_queue_families, for a surface.  The first search asks only the
\* GRAPHICS and COMPUTE families and stops at the first that answers other
\* than false; the second asks every family in order.
select_queue_families(queue_families) ==
    LET single == { i \in 1..Len(queue_families) :
                      queue_families[i].gc /\ queue_families[i].present # "false" }
        presenting == { i \in 1..Len(queue_families) :
                          queue_families[i].present # "false" }
        queue_family == select_queue_family(queue_families)
    IN IF single # {}
       THEN IF queue_families[First(single)].present = "error"
            THEN [ok |-> FALSE, err |-> "VulkanError"]
            ELSE [ok |-> TRUE, families |-> Single(First(single) - 1)]
       ELSE IF ~queue_family.ok THEN queue_family
       ELSE IF presenting = {}
            THEN [ok |-> FALSE, err |-> "NoAcceptableQueueFamily"]
       ELSE IF queue_families[First(presenting)].present = "error"
            THEN [ok |-> FALSE, err |-> "VulkanError"]
       ELSE [ok |-> TRUE,
             families |-> Split(queue_family.index, First(presenting) - 1)]

\* create_device2_impl: the families for a device, with or without a surface.
ResolveQueueFamilies(queue_families, surface) ==
    IF surface THEN select_queue_families(queue_families)
    ELSE LET queue_family == select_queue_family(queue_families) IN
         IF queue_family.ok
         THEN [ok |-> TRUE, families |-> GraphicsComputeOnly(queue_family.index)]
         ELSE queue_family

\* filter_physical_device: some family has GRAPHICS and COMPUTE.
filter_physical_device(queue_families) ==
    \E i \in 1..Len(queue_families) : queue_families[i].gc

\* A variant that keeps the last acceptable device of the enumeration.
select_last_physical_device(devices, enumerated) ==
    LET acceptable == { i \in 1..Len(devices) : filter_physical_device(devices[i]) } IN
    IF ~enumerated THEN [ok |-> FALSE, err |-> "VulkanError"]
    ELSE IF devices = <<>> THEN [ok |-> FALSE, err |-> "NoPhysicalDevicesFound"]
    ELSE IF acceptable = {} THEN [ok |-> FALSE, err |-> "NoAcceptablePhysicalDevice"]
    ELSE [ok |-> TRUE, gpu |-> CHOOSE i \in acceptable : \A j \in acceptable : j <= i]

\* select_physical_device: the handle of a device is its place in the
\* enumeration, from 1; `enumerated` is false when the enumeration fails.
select_physical_device(devices, enumerated) ==
    LET acceptable == { i \in 1..Len(devices) : filter_physical_device(devices[i]) } IN
    IF ~enumerated THEN [ok |-> FALSE, err |-> "VulkanError"]
    ELSE IF devices = <<>> THEN [ok |-> FALSE, err |-> "NoPhysicalDevicesFound"]
    ELSE IF acceptable = {} THEN [ok |-> FALSE, err |-> "NoAcceptablePhysicalDevice"]
    ELSE [ok |-> TRUE, gpu |-> First(acceptable)]

\* create_device2_impl: the physical device to use.
ResolvePhysicalDevice(gpu, devices, enumerated) ==
    IF gpu # 0 THEN [ok |-> TRUE, gpu |-> gpu]
    ELSE select_physical_device(devices, enumerated)

\* What may go wrong in one create_instance call, in the order of the code:
\* a null pointer from the host, a native call that fails, the host's wrapper
\* returning VK_NULL_HANDLE, and the calls after it.
InstanceSteps ==
    <<"create_instance_wrapper", "get_instance_proc_addr",
      "try_enumerate_instance_version", "required_extensions", "vkCreateInstance",
      "enumerate_instance_layer_properties", "from_raw">>

InstanceFailures == {"none"} \cup { InstanceSteps[i] : i \in 1..Len(InstanceSteps) }

\* A variant that takes whatever handle the host's wrapper returns.
create_instance_impl_unchecked(f) ==
    IF f \in {"none", "vkCreateInstance"}
    THEN [ok |-> TRUE, failed |-> f, error |-> "none", wrapped |-> TRUE,
          instance |-> IF f = "none" THEN 1 ELSE 0]
    ELSE [ok |-> FALSE, failed |-> f, wrapped |-> f \in {"enumerate_instance_layer_properties", "from_raw"},
          error |-> IF f \in {"create_instance_wrapper", "get_instance_proc_addr"}
                    THEN "NullFunctionPointer" ELSE "VulkanError"]

\* create_instance_impl: Ok(vk_instance) with both cells to be written, or
\* the error.  `wrapped` tells whether the host's wrapper was called.
create_instance_impl(f) ==
    IF f = "none"
    THEN [ok |-> TRUE, failed |-> f, error |-> "none", wrapped |-> TRUE, instance |-> 1]
    ELSE [ok |-> FALSE, failed |-> f,
          wrapped |-> f \in {"vkCreateInstance", "enumerate_instance_layer_properties",
                             "from_raw"},
          error |-> CASE f \in {"create_instance_wrapper", "get_instance_proc_addr"}
                            -> "NullFunctionPointer"
                      [] f = "vkCreateInstance" -> "NullInstance"
                      [] OTHER -> "VulkanError"]

\* create_instance: the handle for the host, VK_NULL_HANDLE (0) on failure.
\* The cells are written at the end of create_instance_impl; the assertion
\* on its Ok value comes after that.
create_instance ==
    /\ ~crashed
    /\ \E f \in InstanceFailures :
          LET r == create_instance_impl(f) IN
          IF r.ok
          THEN /\ global_entry' = [some |-> TRUE]
               /\ global_instance' = [some |-> TRUE, handle |-> r.instance]
               /\ crashed' = (r.instance = 0)
               /\ negotiated' = [op |-> "create_instance", failed |-> r.failed,
                                 error |-> r.error, gpu |-> 0,
                                 families |-> NoQueueFamilies, wrapped |-> r.wrapped,
                                 queue_create_infos |-> <<>>, result |-> r.instance]
          ELSE /\ negotiated' = [op |-> "create_instance", failed |-> r.failed,
                                 error |-> r.error, gpu |-> 0,
                                 families |-> NoQueueFamilies, wrapped |-> r.wrapped,
                                 queue_create_infos |-> <<>>, result |-> 0]
               /\ UNCHANGED <<global_entry, global_instance, crashed>>
    /\ UNCHANGED <<core_vars, storage_vars, physical_devices, host_gpu, host_surface,
                   global_device, context, target_vars>>

\* create_device, kept for hosts that ask for it: it refuses.
create_device ==
    /\ ~crashed
    /\ negotiated' = [op |-> "create_device", failed |-> "none", error |-> "Unsupported",
                      gpu |-> 0, families |-> NoQueueFamilies, wrapped |-> FALSE,
                      queue_create_infos |-> <<>>, result |-> 0]
    /\ UNCHANGED <<core_vars, storage_vars, crashed, physical_devices, host_gpu, host_surface,
                   global_entry, global_instance, global_device, context, target_vars>>

\* A variant that always passes an entry for the presentation family too.
queue_create_infos_both(families) ==
    <<[queue_family_index |-> queue_family_index(families)],
      [queue_family_index |-> presentation_queue_family_index(families)]>>

\* create_logical_device: the VkDeviceQueueCreateInfo entries of the
\* VkDeviceCreateInfo the host's wrapper is called with: one for the graphics
\* and compute family and, for a Split selection only, one for the
\* presentation family.
queue_create_infos(families) ==
    IF families.kind = "Split"
    THEN <<[queue_family_index |-> queue_family_index(families)],
           [queue_family_index |-> families.present]>>
    ELSE <<[queue_family_index |-> queue_family_index(families)]>>

\* What may go wrong in one create_device2 call apart from the resolution of
\* the device and of its queue families: null pointers from the host, native
\* calls that fail, and the host's wrapper returning VK_NULL_HANDLE.
DeviceSteps ==
    <<"context", "get_instance_proc_addr", "create_device_wrapper",
      "try_enumerate_instance_version", "enumerate_physical_devices",
      "enumerate_device_extension_properties", "vkCreateDevice">>

DeviceFailures == {"none"} \cup { DeviceSteps[i] : i \in 1..Len(DeviceSteps) }

\* create_device2_impl up to the call of the host's wrapper: the error, or
\* the device and the families the wrapper is called with.  After the two
\* function pointers the entry and instance cells are read with expect: an
\* empty cell is a panic.
create_device2_impl(f) ==
    LET Failed(step, error, gpu, families) ==
            [ok |-> FALSE, failed |-> step, error |-> error, gpu |-> gpu,
             families |-> families, wrapped |-> FALSE]
        device == ResolvePhysicalDevice(host_gpu, physical_devices,
                                        f # "enumerate_physical_devices")
    IN IF f \in {"get_instance_proc_addr", "create_device_wrapper"}
       THEN Failed(f, "NullFunctionPointer", 0, NoQueueFamilies)
       ELSE IF ~global_entry.some \/ ~global_instance.some
            THEN Failed("expect", "Panic", 0, NoQueueFamilies)
       ELSE IF f = "try_enumerate_instance_version"
            THEN Failed(f, "VulkanError", 0, NoQueueFamilies)
       ELSE IF ~device.ok
            THEN Failed(IF device.err = "VulkanError" THEN "enumerate_physical_devices"
                        ELSE "select_physical_device", device.err, 0, NoQueueFamilies)
       ELSE LET selected == ResolveQueueFamilies(physical_devices[device.gpu], host_surface)
            IN IF ~selected.ok
               THEN Failed(IF selected.err = "VulkanError"
                           THEN "get_physical_device_surface_support"
                           ELSE "select_queue_families", selected.err, device.gpu,
                           NoQueueFamilies)
               ELSE IF f = "enumerate_device_extension_properties"
                    THEN Failed(f, "VulkanError", device.gpu, selected.families)
               ELSE [ok |-> TRUE, failed |-> IF f = "vkCreateDevice" THEN f ELSE "none",
                     error |-> "none", gpu |-> device.gpu,
                     families |-> selected.families, wrapped |-> TRUE]

\* The retro_vulkan_context create_device2_impl returns for a device handle.
CreatedContext(device, gpu, families) ==
    [device |-> device, gpu |-> gpu,
     queue |-> IF device = 0 THEN 0 ELSE queue(families),
     queue_family_index |-> queue_family_index(families),
     presentation_queue |-> IF device = 0 THEN 0 ELSE presentation_queue(families),
     presentation_queue_family_index |-> presentation_queue_family_index(families)]

\* create_device2.  The host may call it whether or not create_instance
\* filled the cells.  The handle the host's wrapper returns is not looked at:
\* with VK_NULL_HANDLE the device functions are loaded from a null device,
\* which either ends the process or goes on with null handles.
create_device2 ==
    /\ ~crashed
    /\ \E f \in DeviceFailures, outcome \in {"completes", "crashes"} :
          LET r == create_device2_impl(f)
              Record(result) ==
                  [op |-> "create_device2",
                   failed |-> IF f = "context" THEN f ELSE r.failed,
                   error |-> IF f = "context" THEN "NullContext" ELSE r.error,
                   gpu |-> IF f = "context" THEN 0 ELSE r.gpu,
                   families |-> IF f = "context" THEN NoQueueFamilies ELSE r.families,
                   wrapped |-> IF f = "context" THEN FALSE ELSE r.wrapped,
                   queue_create_infos |->
                       IF f # "context" /\ r.wrapped
                       THEN queue_create_infos(r.families) ELSE <<>>,
                   result |-> result]
          IN IF f = "context" \/ (~r.ok /\ r.error # "Panic")
             THEN /\ outcome = "completes"
                  /\ negotiated' = Record(0)
                  /\ UNCHANGED <<global_device, context, crashed>>
             ELSE IF ~r.ok
             THEN /\ outcome = "crashes"
                  /\ crashed' = TRUE
                  /\ negotiated' = Record(0)
                  /\ UNCHANGED <<global_device, context>>
             ELSE IF f = "vkCreateDevice" /\ outcome = "crashes"
             THEN /\ crashed' = TRUE
                  /\ negotiated' = Record(0)
                  /\ UNCHANGED <<global_device, context>>
             ELSE LET device == IF f = "vkCreateDevice" THEN 0 ELSE 1 IN
                  /\ f # "vkCreateDevice" => outcome = "completes"
                  /\ global_device' = [some |-> TRUE, handle |-> device]
                  /\ context' = CreatedContext(device, r.gpu, r.families)
                  /\ negotiated' = Record(1)
                  /\ crashed' = FALSE
    /\ UNCHANGED <<core_vars, storage_vars, physical_devices, host_gpu, host_surface,
                   global_entry, global_instance, target_vars>>

\* The host and its hardware during one negotiation: what it enumerates, the
\* gpu it passes (none, or one of those it enumerates) and whether it passes
\* a surface.
VulkanInit ==
    /\ Ruffle_new
    /\ VulkanStatics
    /\ NoTarget
    /\ physical_devices \in Enumerations
    /\ host_gpu \in 0..Len(physical_devices)
    /\ host_surface \in BOOLEAN
    /\ storage = None
    /\ storage_op = [op |-> "none", name |-> <<>>, result |-> "none", calls |-> <<>>,
                   close |-> "missing"]

VulkanNext ==
    \/ create_instance
    \/ create_device
    \/ create_device2

VulkanSpec == VulkanInit /\ [][VulkanNext]_vars

----------------------------------------------------------------------------
(* backend/render/vulkan/target.rs: RetroTextureTarget.  `limit` is the    *)
(* device's max_texture_dimension_2d.  The program holds at most one       *)
(* target and one backend at a time.                                       *)

\* A variant that also rejects a target as large as the limit.
TextureTargetBelowLimit(size, limit) ==
    IF size[1] >= limit \/ size[2] >= limit \/ size[1] < 1 \/ size[2] < 1
    THEN [result |-> "BoundsError", textures |-> 0, image_views |-> 0]
    ELSE [result |-> "Ok", textures |-> 1, image_views |-> 1]

\* The result and the native objects created: the size is checked first, then
\* the texture and its image view are created.
TextureTarget(size, limit) ==
    IF size[1] > limit \/ size[2] > limit \/ size[1] < 1 \/ size[2] < 1
    THEN [result |-> "BoundsError", textures |-> 0, image_views |-> 0]
    ELSE [result |-> "Ok", textures |-> 1, image_views |-> 1]

\* The wgpu::TextureFormat values a target is asked for.
TextureFormats == {"Rgba8Unorm", "Bgra8Unorm"}

\* The image views that were created and not destroyed.
LiveImageViews(views) == { i \in 1..Len(views) : views[i].destroyed = 0 }

\* The handles vkCreateImageView may return: any handle that is not null and
\* that no live image view has; the handle of a destroyed view is free again.
\* Handles are named in the order the driver first uses them, so a handle
\* never used before is the next number.
FreeHandles(views) ==
    LET used == { views[i].handle : i \in 1..Len(views) }
        live == { views[i].handle : i \in LiveImageViews(views) }
    IN { h \in 1..MaxImageViews : h \notin live /\ \A g \in 1..(h - 1) : g \in used }

\* device.create_texture: one more texture of the graphics layer; the raw
\* image of a texture is named by the texture's place in this list.
create_texture(made) ==
    Append(made, [dropped |-> FALSE, destroyed |-> 0])

\* A wgpu::Texture goes out of scope: the graphics layer releases its image.
drop_texture(made, texture) == [made EXCEPT ![texture].dropped = TRUE]

\* create_image_view: the vk::ImageViewCreateInfo for a raw image; the format
\* is fixed.
ImageViewCreateInfo(image, format) == [image |-> image, format |-> "R8G8B8A8_UNORM"]

\* vkCreateImageView returning `handle` for `image`.
create_image_view(views, image, handle) ==
    Append(views, [handle |-> handle, image |-> image, destroyed |-> 0])

\* vkDestroyImageView(handle): it reaches the view created last with that
\* handle.
destroy_image_view(views, handle) ==
    LET made == { i \in 1..Len(views) : views[i].handle = handle } IN
    IF made = {} THEN views
    ELSE LET i == CHOOSE k \in made : \A j \in made : j <= k
         IN [views EXCEPT ![i].destroyed = @ + 1]

\* retro_vulkan_image, the descriptor handed to the host.
retro_vulkan_image(image_view, image_layout, create_info) ==
    [image_view |-> image_view, image_layout |-> image_layout, create_info |-> create_info]

\* The record of one operation on the target or the backend.
TargetOp(op, arg, result) == [op |-> op, arg |-> arg, result |-> result]

\* RetroTextureTarget::new.  A handle of 0 stands for vkCreateImageView
\* failing, which the unwrap in create_image_view turns into a panic.  A run
\* makes one target: new is called until it succeeds and not again.
RetroTextureTarget_new ==
    /\ ~crashed
    /\ ~texture_target.some
    /\ target.result # "Ok"
    /\ \E width \in 0..(MaxTextureDimension + 1), height \in 0..(MaxTextureDimension + 1),
          limit \in 1..MaxTextureDimension :
          LET size == <<width, height>>
              made == TextureTarget(size, limit)
              texture == Len(textures) + 1
          IN \* the limit is the device's: every call of a run sees the same
             /\ target.result # "none" => limit = target.limit
             /\ IF made.result # "Ok"
                THEN /\ target' = [size |-> size, limit |-> limit,
                                   result |-> made.result, textures |-> made.textures,
                                   image_views |-> made.image_views]
                     /\ target_op' = TargetOp("new", size, made.result)
                     /\ target_calls' = <<>>
                     /\ UNCHANGED <<texture_target, image_views, textures, crashed>>
                ELSE
                  \E format \in TextureFormats, handle \in FreeHandles(image_views) \cup {0} :
                  LET create_info == ImageViewCreateInfo(texture, format) IN
                  /\ Len(textures) < MaxImageViews
                  /\ textures' = create_texture(textures)
                  /\ target_calls' = <<Call("create_texture", <<texture>>),
                                       Call("create_image_view", <<texture, handle>>)>>
                  /\ IF handle = 0
                     THEN /\ crashed' = TRUE
                          /\ target' = [size |-> size, limit |-> limit, result |-> "Panic",
                                        textures |-> 1, image_views |-> 0]
                          /\ target_op' = TargetOp("new", size, "Panic")
                          /\ UNCHANGED <<texture_target, image_views>>
                     ELSE /\ crashed' = FALSE
                          /\ image_views' = create_image_view(image_views, texture, handle)
                          /\ texture_target' =
                                [some |-> TRUE, size |-> size, texture |-> texture,
                                 format |-> format, create_info |-> create_info,
                                 image_view |-> handle,
                                 retro_image |-> retro_vulkan_image(
                                     handle, "SHADER_READ_ONLY_OPTIMAL", create_info)]
                          /\ target' = [size |-> size, limit |-> limit,
                                        result |-> made.result, textures |-> made.textures,
                                        image_views |-> made.image_views]
                          /\ target_op' = TargetOp("new", size, "Ok")
    /\ UNCHANGED <<core_vars, storage_vars, physical_devices, host_gpu, host_surface,
                   global_entry, global_instance, global_device, context, negotiated,
                   vulkan_backend>>

\* The sizes resize is called with.  It takes any width and height and
\* checks nothing: the size the target has, the smallest and the largest a
\* target may have, and one size outside the bounds on either side.
ResizeSizes(size, limit) ==
    {size, <<1, 1>>, <<limit, limit>>, <<0, 1>>, <<limit, limit + 1>>}

\* The graphics layer refuses to create a texture of this size.
InvalidTextureSize(size, limit) ==
    size[1] > limit \/ size[2] > limit \/ size[1] < 1 \/ size[2] < 1

\* A variant of resize that keeps the view when the size does not change.
ResizedKeepingView(old, size, texture, handle) ==
    IF size = old.size
    THEN [old EXCEPT !.texture = texture]
    ELSE LET create_info == ImageViewCreateInfo(texture, old.format) IN
         [old EXCEPT !.size = size, !.texture = texture, !.create_info = create_info,
                     !.image_view = handle,
                     !.retro_image.image_view = handle,
                     !.retro_image.create_info = create_info]

\* A variant of resize that leaves the create-info of the descriptor alone.
ResizedKeepingCreateInfo(old, size, texture, handle) ==
    LET create_info == ImageViewCreateInfo(texture, old.format) IN
    [old EXCEPT !.size = size, !.texture = texture, !.create_info = create_info,
                !.image_view = handle,
                !.retro_image.image_view = handle]

\* RenderTarget::resize on the target `old`: the fields it assigns.
Resized(old, size, texture, handle) ==
    LET create_info == ImageViewCreateInfo(texture, old.format) IN
    [old EXCEPT !.size = size, !.texture = texture, !.create_info = create_info,
                !.image_view = handle,
                !.retro_image.image_view = handle,
                !.retro_image.create_info = create_info]

\* The calls of resize, in the order of the code: the new texture is created
\* and assigned, which drops the old one; the old view is destroyed; the new
\* view is created; the descriptor is assigned the new view and create-info.
resize_calls(old, texture, handle) ==
    <<Call("create_texture", <<texture>>),
      Call("drop_texture", <<old.texture>>),
      Call("destroy_image_view", <<old.image_view>>),
      Call("create_image_view", <<texture, handle>>)>>
        \o (IF handle # 0 THEN <<Call("set_retro_image", <<texture, handle>>)>> ELSE <<>>)

\* RenderTarget::resize.  The size is assigned first.  The new texture
\* replaces the old one, which is dropped; the old view is destroyed; then
\* the new view is created, and a failure there is a panic that leaves the
\* target with the destroyed handle.  For a size the graphics layer refuses,
\* the call panics: in create_texture when the layer reports the error at
\* once (`unwinds` is "create_texture"), else with the texture replaced by an
\* invalid one, in the unwrap of its raw image after the old view was
\* destroyed (`unwinds` is "get_vk_image").
RetroTextureTarget_resize ==
    /\ ~crashed
    /\ texture_target.some
    /\ Len(textures) < MaxImageViews
    /\ LET destroyed == destroy_image_view(image_views, texture_target.image_view)
           texture == Len(textures) + 1
       IN \E size \in ResizeSizes(texture_target.size, target.limit),
             handle \in FreeHandles(destroyed) \cup {0},
             unwinds \in {"create_texture", "get_vk_image"} :
             IF InvalidTextureSize(size, target.limit)
             THEN /\ handle = 0
                  /\ crashed' = TRUE
                  /\ target_op' = TargetOp("resize", size, "Panic")
                  /\ IF unwinds = "create_texture"
                     THEN /\ texture_target' = [texture_target EXCEPT !.size = size]
                          /\ target_calls' = <<Call("create_texture", <<0>>)>>
                          /\ UNCHANGED <<image_views, textures>>
                     ELSE /\ texture_target' =
                                [texture_target EXCEPT !.size = size, !.texture = 0]
                          /\ textures' = drop_texture(textures, texture_target.texture)
                          /\ image_views' = destroyed
                          /\ target_calls' =
                                <<Call("create_texture", <<0>>),
                                  Call("drop_texture", <<texture_target.texture>>),
                                  Call("destroy_image_view", <<texture_target.image_view>>)>>
             ELSE
             /\ unwinds = "create_texture"
             /\ textures' = drop_texture(create_texture(textures),
                                         texture_target.texture)
             /\ target_calls' = resize_calls(texture_target, texture, handle)
             /\ IF handle = 0
                THEN /\ crashed' = TRUE
                     /\ image_views' = destroyed
                     /\ texture_target' =
                           [texture_target EXCEPT !.size = size, !.texture = texture]
                     /\ target_op' = TargetOp("resize", size, "Panic")
                ELSE /\ crashed' = FALSE
                     /\ image_views' = create_image_view(destroyed, texture, handle)
                     /\ texture_target' = Resized(texture_target, size, texture, handle)
                     /\ target_op' = TargetOp("resize", size, "Ok")
    /\ UNCHANGED <<core_vars, storage_vars, physical_devices, host_gpu, host_surface,
                   global_entry, global_instance, global_device, context, negotiated,
                   target, vulkan_backend>>

\* The target goes out of scope.  RetroTextureTarget has no Drop of its own:
\* its fields are dropped, the texture among them; the image view is a plain
\* handle, and dropping a handle calls nothing.
RetroTextureTarget_drop ==
    /\ ~crashed
    /\ texture_target.some
    /\ textures' = drop_texture(textures, texture_target.texture)
    /\ texture_target' = None
    /\ target_op' = TargetOp("drop", <<>>, "Ok")
    /\ target_calls' = <<Call("drop_texture", <<texture_target.texture>>)>>
    /\ UNCHANGED <<core_vars, storage_vars, crashed, physical_devices, host_gpu, host_surface,
                   global_entry, global_instance, global_device, context, negotiated,
                   target, vulkan_backend, image_views>>

----------------------------------------------------------------------------
(* backend/render/vulkan.rs: VulkanWgpuRenderBackend, which keeps an image  *)
(* view of its own over the texture of the renderer's target.              *)

\* The fallible steps of VulkanWgpuRenderBackend::new, in the order of the
\* code; each returns the error with `?`.
BackendSteps ==
    <<"VulkanRenderInterface_new", "create_descriptors", "TextureTarget_new",
      "WgpuRenderBackend_new", "create_image_view">>

BackendFailures == {"none"} \cup { BackendSteps[i] : i \in 1..Len(BackendSteps) }

\* A variant of the destructor that leaves the view to the host.
BackendDropKeepsView(views, backend) == views

\* Drop for VulkanWgpuRenderBackend: the image view is destroyed; nothing
\* else is.
BackendDrop(views, backend) == destroy_image_view(views, backend.image.image_view)

VulkanWgpuRenderBackend_new ==
    /\ ~crashed
    /\ ~vulkan_backend.some
    /\ Len(textures) < MaxImageViews
    /\ \E f \in BackendFailures, handle \in FreeHandles(image_views) :
          LET texture == Len(textures) + 1
              create_info == [image |-> texture, format |-> "R8G8B8A8_UNORM"]
          IN CASE f \in {"VulkanRenderInterface_new", "create_descriptors", "TextureTarget_new"} ->
                      /\ target_op' = TargetOp("backend_new", <<>>, f)
                      /\ target_calls' = <<>>
                      /\ UNCHANGED <<vulkan_backend, image_views, textures>>
               [] f \in {"WgpuRenderBackend_new", "create_image_view"} ->
                      /\ textures' = drop_texture(create_texture(textures), texture)
                      /\ target_op' = TargetOp("backend_new", <<>>, f)
                      /\ target_calls' =
                            <<Call("create_texture", <<texture>>)>>
                               \o (IF f = "create_image_view"
                                   THEN <<Call("create_image_view", <<texture, 0>>)>>
                                   ELSE <<>>)
                               \o <<Call("drop_texture", <<texture>>)>>
                      /\ UNCHANGED <<vulkan_backend, image_views>>
               [] OTHER ->
                      /\ textures' = create_texture(textures)
                      /\ image_views' = create_image_view(image_views, texture, handle)
                      /\ vulkan_backend' =
                            [some |-> TRUE, texture |-> texture,
                             image |-> retro_vulkan_image(
                                 handle, "TRANSFER_DST_OPTIMAL", create_info)]
                      /\ target_op' = TargetOp("backend_new", <<>>, "Ok")
                      /\ target_calls' = <<Call("create_texture", <<texture>>),
                                           Call("create_image_view", <<texture, handle>>)>>
    /\ UNCHANGED <<core_vars, storage_vars, crashed, physical_devices, host_gpu, host_surface,
                   global_entry, global_instance, global_device, context, negotiated,
                   target, texture_target>>

\* The backend goes out of scope: its destructor runs, then its fields are
\* dropped, the renderer with its target and texture among them.
VulkanWgpuRenderBackend_drop ==
    /\ ~crashed
    /\ vulkan_backend.some
    /\ image_views' = BackendDrop(image_views, vulkan_backend)
    /\ textures' = drop_texture(textures, vulkan_backend.texture)
    /\ vulkan_backend' = None
    /\ target_op' = TargetOp("backend_drop", <<>>, "Ok")
    /\ target_calls' =
          <<Call("destroy_image_view", <<vulkan_backend.image.image_view>>),
            Call("drop_texture", <<vulkan_backend.texture>>)>>
    /\ UNCHANGED <<core_vars, storage_vars, crashed, physical_devices, host_gpu, host_surface,
                   global_entry, global_instance, global_device, context, negotiated,
                   target, texture_target>>

TargetNext ==
    \/ RetroTextureTarget_new
    \/ RetroTextureTarget_resize
    \/ RetroTextureTarget_drop
    \/ VulkanWgpuRenderBackend_new
    \/ VulkanWgpuRenderBackend_drop

TargetSpec == Init /\ [][TargetNext]_vars

----------------------------------------------------------------------------
(* backend/storage.rs: RetroVfsStorageBackend, the engine's storage on the  *)
(* host's virtual filesystem.  A path is the sequence of its characters;   *)
(* a run of characters that holds no '/' and no '.' is one character here.  *)

\* The names the engine asks for: "", "a", "a/a", "..", "../a", "a/../a",
\* "a/..", "/a", "/../a", "./a", "a/./a", "a//a", "...", ".a/a" and "a..a".
Names ==
    { <<>>, <<"a">>, <<"a", "/", "a">>,
      <<".", ".">>, <<".", ".", "/", "a">>, <<"a", "/", ".", ".", "/", "a">>,
      <<"a", "/", ".", ".">>, <<"/", "a">>, <<"/", ".", ".", "/", "a">>,
      <<".", "/", "a">>, <<"a", "/", ".", "/", "a">>, <<"a", "/", "/", "a">>,
      <<".", ".", ".">>, <<".", "a", "/", "a">>, <<"a", ".", ".", "a">> }

\* The directories the host names as its save directory.
BasePaths ==
    { <<"saves">>, <<"saves", "/", ".", ".", "/", "saves">> }

\* The pieces of a path between its '/' characters.
RECURSIVE Segments(_)
Segments(path) ==
    LET slashes == { i \in 1..Len(path) : path[i] = "/" } IN
    IF slashes = {} THEN <<path>>
    ELSE LET i == First(slashes) IN
         <<SubSeq(path, 1, i - 1)>> \o Segments(SubSeq(path, i + 1, Len(path)))

\* std::path::Path::components: the root if the path starts with '/', then
\* one component per segment; empty segments and '.' segments are skipped
\* (a '.' that opens a relative path is kept), '..' is the parent directory.
components(path) ==
    LET segments == Segments(path)
        rooted == path # <<>> /\ path[1] = "/"
        Component(i) ==
            CASE segments[i] = <<>> -> [kind |-> "Skipped"]
              [] segments[i] = <<".">> ->
                    IF i = 1 THEN [kind |-> "CurDir"] ELSE [kind |-> "Skipped"]
              [] segments[i] = <<".", ".">> -> [kind |-> "ParentDir"]
              [] OTHER -> [kind |-> "Normal", name |-> segments[i]]
        kept == SelectSeq([i \in 1..Len(segments) |-> Component(i)],
                          LAMBDA c : c.kind # "Skipped")
    IN IF rooted THEN <<[kind |-> "RootDir"]>> \o kept ELSE kept

\* std::path::Path::join: an absolute path replaces the base.
join(base, path) ==
    IF path # <<>> /\ path[1] = "/" THEN path
    ELSE IF base = <<>> \/ base[Len(base)] = "/" THEN base \o path
    ELSE base \o <<"/">> \o path

\* A variant that only looks at the name's first component.
is_path_allowed_first_only(path) ==
    LET c == components(path) IN c = <<>> \/ c[1].kind # "ParentDir"

\* is_path_allowed: no component is the parent directory.
is_path_allowed(path) ==
    \A i \in 1..Len(components(path)) : components(path)[i].kind # "ParentDir"

\* get_shared_object_path: shared_objects_path.join(format!("{name}.sol")).
get_shared_object_path(backend, name) ==
    join(backend.shared_objects_path, name \o <<".", "sol">>)

\* RetroVfsStorageBackend::new for a save directory.
RetroVfsStorageBackend_new(base_path) ==
    [some |-> TRUE, base_path |-> base_path,
     shared_objects_path |-> join(base_path, <<"SharedObjects">>)]

\* What the host's virtual filesystem does to one operation: the first step
\* that does not go through (a function pointer the host left null, or a
\* call that reports failure), and what its close does: "missing" when the
\* pointer is null, else the value close returns.
GetFailures ==
    {"none", "open_missing", "open_null", "size_missing", "size_error",
     "read_missing", "read_error", "short_read"}

PutFailures ==
    {"none", "mkdir_missing", "mkdir_error", "open_missing", "open_null",
     "write_missing", "write_error"}

RemoveFailures == {"none", "remove_missing", "remove_error"}

CloseAnswers == {"missing", "ok", "error"}

\* The calls that close the handle, when the host has a close function.
Closing(handle, close) ==
    IF close = "missing" THEN <<>> ELSE <<Call("close", <<handle>>)>>

\* What one storage operation leaves behind about itself, and what the
\* host's close function was during it.
StorageOp(op, name, result, made, close) ==
    [op |-> op, name |-> name, result |-> result, calls |-> made,
     close |-> close]

\* A variant of get that returns on a failed read without closing.
get_calls_leaking(f, close) ==
    CASE f = "open_missing" -> <<>>
      [] f = "open_null" -> <<Call("open", <<0>>)>>
      [] f = "size_missing" -> <<Call("open", <<1>>)>> \o Closing(1, close)
      [] f \in {"size_error", "read_missing"} ->
            <<Call("open", <<1>>), Call("size", <<1>>)>> \o Closing(1, close)
      [] f = "read_error" ->
            <<Call("open", <<1>>), Call("size", <<1>>), Call("read", <<1>>)>>
      [] OTHER ->
            <<Call("open", <<1>>), Call("size", <<1>>), Call("read", <<1>>)>>
                \o Closing(1, close)

\* StorageBackend::get.  open is recorded with the handle it returned: 1, or
\* 0 for a null handle.
get_calls(f, close) ==
    CASE f = "open_missing" -> <<>>
      [] f = "open_null" -> <<Call("open", <<0>>)>>
      [] f = "size_missing" -> <<Call("open", <<1>>)>> \o Closing(1, close)
      [] f \in {"size_error", "read_missing"} ->
            <<Call("open", <<1>>), Call("size", <<1>>)>> \o Closing(1, close)
      [] OTHER ->
            <<Call("open", <<1>>), Call("size", <<1>>), Call("read", <<1>>)>>
                \o Closing(1, close)

get ==
    /\ ~crashed
    /\ storage.some
    /\ \E name \in Names, f \in GetFailures, close \in CloseAnswers :
          LET path == get_shared_object_path(storage, name) IN
          storage_op' =
             IF ~is_path_allowed(path) THEN StorageOp("get", name, "None", <<>>, close)
             ELSE StorageOp("get", name,
                            IF f \in {"none", "short_read"} THEN "Some" ELSE "None",
                            get_calls(f, close), close)
    /\ UNCHANGED <<core_vars, crashed, vulkan_vars, storage>>

\* StorageBackend::put.  The directory of the file is made first; mkdir
\* answers 0, or -2 for a directory that exists.
put_calls(f, close) ==
    CASE f = "mkdir_missing" -> <<>>
      [] f \in {"mkdir_error", "open_missing"} -> <<Call("mkdir", <<>>)>>
      [] f = "open_null" -> <<Call("mkdir", <<>>), Call("open", <<0>>)>>
      [] f = "write_missing" ->
            <<Call("mkdir", <<>>), Call("open", <<1>>)>> \o Closing(1, close)
      [] OTHER ->
            <<Call("mkdir", <<>>), Call("open", <<1>>), Call("write", <<1>>)>>
                \o Closing(1, close)

put ==
    /\ ~crashed
    /\ storage.some
    /\ \E name \in Names, f \in PutFailures, close \in CloseAnswers :
          LET path == get_shared_object_path(storage, name) IN
          storage_op' =
             IF ~is_path_allowed(path) THEN StorageOp("put", name, "false", <<>>, close)
             ELSE StorageOp("put", name, IF f = "none" THEN "true" ELSE "false",
                            put_calls(f, close), close)
    /\ UNCHANGED <<core_vars, crashed, vulkan_vars, storage>>

\* StorageBackend::remove_key.
remove_key ==
    /\ ~crashed
    /\ storage.some
    /\ \E name \in Names, f \in RemoveFailures, close \in CloseAnswers :
          LET path == get_shared_object_path(storage, name) IN
          storage_op' =
             IF ~is_path_allowed(path) \/ f = "remove_missing"
             THEN StorageOp("remove_key", name, "()", <<>>, close)
             ELSE StorageOp("remove_key", name, "()", <<Call("remove", <<>>)>>, close)
    /\ UNCHANGED <<core_vars, crashed, vulkan_vars, storage>>

\* The engine with a storage backend made for one of the save directories.
StorageInit ==
    /\ Ruffle_new
    /\ VulkanStatics
    /\ NoTarget
    /\ physical_devices = <<>>
    /\ host_gpu = 0
    /\ host_surface = FALSE
    /\ storage \in { RetroVfsStorageBackend_new(base_path) : base_path \in BasePaths }
    /\ storage_op = StorageOp("none", <<>>, "none", <<>>, "missing")

StorageNext ==
    \/ get
    \/ put
    \/ remove_key

StorageSpec == StorageInit /\ [][StorageNext]_vars

----------------------------------------------------------------------------

Next ==
    \/ on_set_environment
    \/ on_init
    \/ on_load_game
    \/ on_unload_game
    \/ on_hw_context_reset
    \/ on_hw_context_destroyed
    \/ on_keyboard_event
    \/ on_options_changed
    \/ on_write_audio
    \/ on_audio_set_state
    \/ on_run

Spec == Init /\ [][Next]_vars

----------------------------------------------------------------------------
(* Properties.  Every callback records its own name in `last`, so a step    *)
(* with last'.op = X is a step of callback X.                               *)

\* The number of calls named `name` among `cs`.
Count(cs, name) == Len(CallsNamed(cs, name))

\* C1: when on_hw_context_destroyed is invoked while the player state is
\* Active, the state after the callback is Exiting and exactly one shutdown
\* request is issued during the callback.
C1_DestroyedWhileActiveExits ==
    [][ (last'.op = "on_hw_context_destroyed" /\ player.tag = "Active")
          => /\ player' = Exiting
             /\ Count(calls', "shutdown") = 1 ]_vars

C1_Witness ==
    /\ last.op = "on_hw_context_destroyed"
    /\ last.from = "Active"
    /\ player.tag = "Exiting"
    /\ Count(calls, "shutdown") = 1

\* C2: when on_hw_context_reset is invoked in Pending and finalization
\* succeeds, the state afterwards is Active with the engine built from the
\* builder Pending held (its movie and backends, plus a renderer), the
\* builder is gone from the state, and that builder was built once: the
\* build count of the load goes from 0 to 1, and no reset from a state other
\* than Pending builds anything.
C2_PendingResetFinalizesOnce ==
    [][ /\ (last'.op = "on_hw_context_reset" /\ player.tag = "Pending"
                /\ last'.result = "Ok")
            => /\ player'.tag = "Active"
               /\ DOMAIN player' = {"tag", "player"}
               /\ player'.player.movie = player.builder.movie
               /\ player'.player.storage = player.builder.storage
               /\ player'.player.renderer # "None"
               /\ builds = 0
               /\ builds' = 1
        /\ (last'.op = "on_hw_context_reset" /\ player.tag # "Pending")
            => /\ builds' = builds
               /\ player'.tag # "Active" ]_vars

C2_Witness ==
    /\ last.op = "on_hw_context_reset"
    /\ last.from = "Pending"
    /\ last.result = "Ok"
    /\ player.tag = "Active"
    /\ builds = 1

C4_ActiveResetExits ==
    [][ (last'.op = "on_hw_context_reset" /\ player.tag = "Active")
          => /\ player' = Exiting
             /\ Count(calls', "shutdown") = 1
             /\ builds' = builds ]_vars

C4_Witness ==
    /\ last.op = "on_hw_context_reset"
    /\ last.from = "Active"
    /\ player.tag = "Exiting"
    /\ Count(calls, "shutdown") = 1

\* C5: on_unload_game leaves the state Uninitialized whatever the state
\* was; the builder or engine handle the state held is gone with it.
C5_UnloadUninitializes ==
    [][ last'.op = "on_unload_game"
          => /\ player' = Uninitialized
             /\ DOMAIN player' = {"tag"} ]_vars

C5_Witness ==
    /\ last.op = "on_unload_game"
    /\ last.from = "Exiting"
    /\ player = Uninitialized

\* A pixel count is the whole number of pixels nearest to a length in twips.
NearestPixel(pixels, twips) ==
    LET off == pixels * TWIPS_PER_PIXEL - twips IN
    2 * (IF off < 0 THEN -off ELSE off) <= TWIPS_PER_PIXEL

\* C6: a successful on_load_game starts in Uninitialized and ends in
\* Pending; base and max width and height in av_info are the movie's width
\* and height in pixels and fps is the movie's frame rate, so that a 550x400
\* movie at 24 fps gives the viewport (550, 400); the builder Pending holds
\* is built for that movie and viewport and has no renderer.
C6_LoadEntersPendingWithMovieGeometry ==
    [][ (last'.op = "on_load_game" /\ last'.result = "Ok")
          => LET width == last'.arg[1]
                 height == last'.arg[2]
                 frame_rate == last'.arg[3]
             IN /\ player.tag = "Uninitialized"
                /\ player'.tag = "Pending"
                /\ player'.builder.renderer = "None"
                /\ player'.builder.movie =
                      [width |-> width, height |-> height, frame_rate |-> frame_rate]
                /\ player'.builder.viewport = <<av_info'.base_width, av_info'.base_height>>
                /\ av_info'.some
                /\ NearestPixel(av_info'.base_width, width)
                /\ NearestPixel(av_info'.base_height, height)
                /\ av_info'.max_width = av_info'.base_width
                /\ av_info'.max_height = av_info'.base_height
                /\ av_info'.fps.frac \in 0..(FIXED8_ONE - 1)
                /\ av_info'.fps.int * FIXED8_ONE + av_info'.fps.frac = frame_rate
                /\ (width = 550 * TWIPS_PER_PIXEL /\ height = 400 * TWIPS_PER_PIXEL
                       /\ frame_rate = 24 * FIXED8_ONE)
                     => /\ player'.builder.viewport = <<550, 400>>
                        /\ av_info'.fps = [int |-> 24, frac |-> 0] ]_vars

C6_Witness ==
    /\ last.op = "on_load_game"
    /\ last.result = "Ok"
    /\ player.tag = "Pending"
    /\ player.builder.renderer = "None"
    /\ av_info.some
    /\ <<av_info.base_width, av_info.base_height>> = <<550, 400>>
    /\ av_info.fps.int = 24

\* C7: whenever on_load_game returns an error, the core's state is what it
\* was before the call: the player state is still Uninitialized and av_info
\* is not modified.
C7_FailedLoadChangesNothing ==
    [][ (last'.op = "on_load_game" /\ last'.result # "Ok")
          => /\ player' = player
             /\ player'.tag = "Uninitialized"
             /\ av_info' = av_info ]_vars

\* C8: when the host answers the preferred-context query with driver
\* switching not allowed, DriverSwitchingNotAvailable is the error
\* on_load_game returns: the core is still running and Uninitialized.
C8_DriverSwitchingAbortsLoad ==
    last.result = "DriverSwitchingNotAvailable"
        => /\ last.op = "on_load_game"
           /\ ~crashed
           /\ player.tag = "Uninitialized"

\* The order of the calls `cs` of one tick: one input poll first, the queued
\* `events` delivered oldest first, one playback tick with `delta_us` in
\* milliseconds, a render exactly when the engine needs one, one present,
\* and `batches` audio batches, each group after the one before it.
TickInOrder(cs, events, delta_us, needs_render, batches) ==
    LET polls == Positions(cs, "poll_input")
        delivered == Positions(cs, "handle_event")
        ticks == Positions(cs, "tick")
        renders == Positions(cs, "render")
        presents == Positions(cs, "draw_hardware_frame")
        audio == Positions(cs, "batch_audio_samples")
        Before(A, B) == \A a \in A, b \in B : a < b
    IN /\ polls = {1}
       /\ CallsNamed(cs, "handle_event")
            = [i \in 1..Len(events) |-> Call("handle_event", <<EventCode(events[i])>>)]
       /\ Cardinality(ticks) = 1
       /\ \A t \in ticks :
            /\ cs[t].arg[2] \in 0..999
            /\ cs[t].arg[1] * 1000 + cs[t].arg[2] = delta_us
       /\ Cardinality(renders) = (IF needs_render THEN 1 ELSE 0)
       /\ Cardinality(presents) = 1
       /\ Cardinality(audio) = batches
       /\ Before(polls, delivered) /\ Before(delivered, ticks) /\ Before(polls, ticks)
       /\ Before(ticks, renders) /\ Before(renders, presents) /\ Before(ticks, presents)
       /\ Before(presents, audio)

\* A step that is an on_run tick of an Active player carrying an elapsed time.
ActiveTickStep ==
    /\ last'.op = "on_run"
    /\ player.tag = "Active"
    /\ Len(last'.arg) = 2

\* C9 as stated: every such tick polls, delivers, ticks, renders if needed,
\* presents once and then sends the audio batch, and the state stays Active.
C9_TickSendsAudioBatch ==
    [][ ActiveTickStep
          => /\ TickInOrder(calls', queued_events, last'.arg[1], last'.arg[2] = 1, 1)
             /\ player' = player ]_vars

\* C9 as amended: the same order, with the audio batch sent exactly when the
\* audio backend has samples for a frame, that is when its frame rate is at
\* least one frame per second.
C9_TickInOrder ==
    [][ ActiveTickStep
          => /\ TickInOrder(calls', queued_events, last'.arg[1], last'.arg[2] = 1,
                            IF player.player.audio_fps.int >= 1 THEN 1 ELSE 0)
             /\ player' = player
             /\ queued_events' = <<>> ]_vars

C9_Witness ==
    /\ last.op = "on_run"
    /\ last.from = "Active"
    /\ last.arg = <<16667, 1>>
    /\ player.tag = "Active"
    /\ Count(calls, "handle_event") = 2
    /\ Count(calls, "render") = 1
    /\ Count(calls, "draw_hardware_frame") = 1
    /\ Count(calls, "batch_audio_samples") = 1

\* C10: once the state is Exiting, over all the on_run ticks that follow the
\* core notifies the host of the context loss once and requests shutdown
\* once, and no tick ticks the engine, renders or presents.
C10_ExitingNotifiesOnce ==
    (player.tag = "Exiting" /\ exit_ticks >= 1)
        => /\ exit_notifications = 1
           /\ exit_shutdowns = 1
           /\ last.op = "on_run"
                => /\ Count(calls, "tick") = 0
                   /\ Count(calls, "render") = 0
                   /\ Count(calls, "draw_hardware_frame") = 0

\* C11: a context callback that arrives in a state where it does not apply
\* is a no-op: on_hw_context_destroyed in Uninitialized, Pending or Exiting
\* and on_hw_context_reset in Uninitialized or Exiting leave the player state
\* (and the rest of the core's state) as it was and issue no shutdown request.
C11_InapplicableContextCallbackIsNoOp ==
    [][ (\/ /\ last'.op = "on_hw_context_destroyed"
            /\ player.tag \in {"Uninitialized", "Pending", "Exiting"}
         \/ /\ last'.op = "on_hw_context_reset"
            /\ player.tag \in {"Uninitialized", "Exiting"})
          => /\ player' = player
             /\ Count(calls', "shutdown") = 0
             /\ calls' = <<>>
             /\ UNCHANGED <<av_info, queued_events, hw_render_callback, builds,
                            game_loaded, frontend_preferred_hw_render>> ]_vars

C11_Witness ==
    /\ last.op = "on_hw_context_destroyed"
    /\ last.from = "Exiting"
    /\ player.tag = "Exiting"
    /\ calls = <<>>

\* The context type the claim gives for each of the codes 0..7.
C12_Table ==
    <<"NONE", "OPENGL", "OPENGLES2", "OPENGL_CORE", "OPENGLES3",
      "OPENGLES_VERSION", "VULKAN", "DIRECT3D">>

\* C12: get_preferred_hw_render is a function of the host's answer: absent
\* callback gives InvalidEnvironmentCallback; allowed = false gives
\* DriverSwitchingNotAvailable for every code; allowed = true gives the
\* context type of the table for the codes 0..7 and UnknownContextType(code)
\* for every other code.  The caller (on_init) issues exactly one host query
\* and, apart from storing a successful result, changes no core state.
C12_PreferenceIsFunctionOfAnswer ==
    [][ last'.op = "on_init"
          => LET arg == last'.arg
                 answer == IF arg = <<>> THEN None
                           ELSE [some |-> TRUE, code |-> arg[1], allowed |-> (arg[2] = 1)]
                 r == get_preferred_hw_render(answer)
             IN /\ arg = <<>> => r = [ok |-> FALSE, err |-> "InvalidEnvironmentCallback"]
                /\ (arg # <<>> /\ arg[2] = 0)
                      => r = [ok |-> FALSE, err |-> "DriverSwitchingNotAvailable"]
                /\ (arg # <<>> /\ arg[2] = 1 /\ arg[1] \in 0..7)
                      => r = [ok |-> TRUE, value |-> C12_Table[arg[1] + 1]]
                /\ (arg # <<>> /\ arg[2] = 1 /\ arg[1] \notin 0..7)
                      => r = [ok |-> FALSE, err |-> "UnknownContextType", code |-> arg[1]]
                /\ last'.result = (IF r.ok THEN "Ok" ELSE r.err)
                /\ r.ok => frontend_preferred_hw_render' = r.value
                /\ ~r.ok => frontend_preferred_hw_render' = frontend_preferred_hw_render
                /\ Count(calls', "get_preferred_hw_render") = 1
                /\ Len(calls') = 1
                /\ UNCHANGED <<player, av_info, queued_events, hw_render_callback,
                               keyboard_callback, game_loaded>> ]_vars

C12_Witness ==
    /\ last.op = "on_init"
    /\ last.arg = <<MaxHostCode, 0>>
    /\ last.result = "DriverSwitchingNotAvailable"

\* C13: the context type announced to the host is the normalization of the
\* preferred type: OpenGL becomes ES2, OpenGL-core and ES-version-negotiated
\* become ES3, every other type is passed through unchanged, and normalizing
\* the announced type again changes nothing.
C13_AnnouncedTypeIsNormalized ==
    hw_render_callback.some
        => LET preferred == frontend_preferred_hw_render
               announced == hw_render_callback.context_type
           IN /\ preferred = "OPENGL" => announced = "OPENGLES2"
              /\ preferred \in {"OPENGL_CORE", "OPENGLES_VERSION"} => announced = "OPENGLES3"
              /\ preferred \in {"OPENGLES2", "OPENGLES3", "VULKAN", "DIRECT3D", "NONE"}
                    => announced = preferred
              /\ NormalizedContextType(announced) = announced

C13_Witness ==
    /\ hw_render_callback.some
    /\ frontend_preferred_hw_render = "OPENGL_CORE"
    /\ hw_render_callback.context_type = "OPENGLES3"
    /\ last.op = "on_load_game"

\* C14: the version announced to the host is the one the version table gives
\* for the announced (normalized) context type: ES3 with 3.1, ES2 with 2.0,
\* Direct3D with 11.0 and Vulkan with 1.3, whatever preferred type the
\* announced type results from.
C14_VersionOfAnnouncedType ==
    hw_render_callback.some
        => LET announced == hw_render_callback.context_type
               version == <<hw_render_callback.version_major,
                            hw_render_callback.version_minor>>
           IN /\ announced = "OPENGLES3" => version = <<3, 1>>
              /\ announced = "OPENGLES2" => version = <<2, 0>>
              /\ announced = "DIRECT3D" => version = <<11, 0>>
              /\ announced = "VULKAN" => version = <<API_VERSION_1_3, 0>>

\* C15: the set-hardware-render request is made once and registers both the
\* context-reset and the context-destroy callback; when the host rejects it
\* the error is FailedToSetRenderer carrying the context type that was
\* requested from the host, when the host callback is missing the error is
\* InvalidEnvironmentCallback, and in both cases no callback value is kept.
C15_AnnounceRegistersOrFails ==
    [][ (last'.op = "on_load_game" /\ Count(calls', "enable_hw_render") > 0)
          => LET failed == calls'[Len(calls')].call = "enable_hw_render"
                              /\ last'.result # "Ok"
                 requested == NormalizedContextType(frontend_preferred_hw_render)
             IN /\ Count(calls', "enable_hw_render") = 1
                /\ ~failed => /\ hw_render_callback'.some
                              /\ hw_render_callback'.context_reset
                              /\ hw_render_callback'.context_destroy
                /\ failed => /\ hw_render_callback' = hw_render_callback
                             /\ last'.result \in {"FailedToSetRenderer",
                                                  "InvalidEnvironmentCallback"}
                             /\ last'.result = "FailedToSetRenderer"
                                   => last'.detail = <<ContextCode(requested)>>
                             /\ last'.result = "InvalidEnvironmentCallback"
                                   => last'.detail = <<>> ]_vars

----------------------------------------------------------------------------
(* Properties of the Vulkan negotiation, under VulkanSpec.  Every callback *)
(* records its name in `negotiated`.                                       *)

\* A create_device2 step that got as far as resolving the queue families of
\* the device it settled on.
QueueFamiliesResolved ==
    /\ negotiated'.op = "create_device2"
    /\ negotiated'.gpu # 0

\* C16: queue-family selection is determined by the device's families and
\* the surface (every presentation query being answered): with a surface it
\* is Single iff some family supports GRAPHICS+COMPUTE and presentation,
\* otherwise Split iff some family supports GRAPHICS+COMPUTE and some family
\* supports presentation; without a surface it is GraphicsComputeOnly iff
\* some family supports GRAPHICS+COMPUTE; in every remaining case it fails
\* with NoAcceptableQueueFamily, and it is never GraphicsComputeOnly when a
\* surface was supplied.
C16_QueueFamilySelection ==
    [][ QueueFamiliesResolved
          => LET F == physical_devices[negotiated'.gpu]
                 answered == \A i \in 1..Len(F) : F[i].present # "error"
                 GC(i) == F[i].gc
                 P(i) == F[i].present = "true"
                 hasGC == \E i \in 1..Len(F) : GC(i)
                 hasP == \E i \in 1..Len(F) : P(i)
                 hasGCP == \E i \in 1..Len(F) : GC(i) /\ P(i)
                 selected == negotiated'.families
             IN answered
                  => /\ host_surface
                         => /\ selected.kind = "Single" <=> hasGCP
                            /\ selected.kind = "Split" <=> (~hasGCP /\ hasGC /\ hasP)
                            /\ selected.kind # "GraphicsComputeOnly"
                     /\ ~host_surface
                         => /\ selected.kind = "GraphicsComputeOnly" <=> hasGC
                            /\ selected.kind \notin {"Single", "Split"}
                     /\ selected.kind = "None"
                         => /\ negotiated'.error = "NoAcceptableQueueFamily"
                            /\ negotiated'.failed = "select_queue_families"
                            /\ negotiated'.result = 0
                     /\ selected.kind = "Single"
                         => GC(selected.family + 1) /\ P(selected.family + 1)
                     /\ selected.kind = "Split"
                         => GC(selected.graphics_compute + 1) /\ P(selected.present + 1)
                     /\ selected.kind = "GraphicsComputeOnly"
                         => GC(selected.family + 1) ]_vars

C16_Witness ==
    /\ negotiated.op = "create_device2"
    /\ host_surface
    /\ negotiated.families.kind = "Split"
    /\ negotiated.families.graphics_compute = 1
    /\ negotiated.result = 1
    /\ context.queue_family_index = 1
    /\ context.presentation_queue_family_index = 0

\* A create_device2 step that got as far as resolving the physical device,
\* the enumeration (if any) having answered.
PhysicalDeviceResolved ==
    /\ negotiated'.op = "create_device2"
    /\ negotiated'.failed \notin
          {"context", "get_instance_proc_addr", "create_device_wrapper", "expect",
           "try_enumerate_instance_version", "enumerate_physical_devices"}

\* C17: a non-null gpu handle of the host is used unchanged; with a null
\* handle the device is the first of the enumeration, in its order, that has
\* a family with GRAPHICS and COMPUTE; resolution fails with
\* NoPhysicalDevicesFound when the enumeration is empty and with
\* NoAcceptablePhysicalDevice when no device qualifies, and a failure aborts
\* the negotiation: the host's wrapper is not called, nothing is stored and
\* the host gets false.
C17_PhysicalDeviceResolution ==
    [][ PhysicalDeviceResolved
          => LET qualifies(i) ==
                     \E k \in 1..Len(physical_devices[i]) : physical_devices[i][k].gc
                 qualifying == { i \in 1..Len(physical_devices) : qualifies(i) }
                 unresolved == negotiated'.failed = "select_physical_device"
             IN /\ host_gpu # 0 => (~unresolved /\ negotiated'.gpu = host_gpu)
                /\ (host_gpu = 0 /\ physical_devices = <<>>)
                      => (unresolved /\ negotiated'.error = "NoPhysicalDevicesFound")
                /\ (host_gpu = 0 /\ physical_devices # <<>> /\ qualifying = {})
                      => (unresolved /\ negotiated'.error = "NoAcceptablePhysicalDevice")
                /\ (host_gpu = 0 /\ qualifying # {})
                      => /\ ~unresolved
                         /\ negotiated'.gpu \in qualifying
                         /\ \A i \in qualifying : negotiated'.gpu <= i
                /\ unresolved
                      => /\ negotiated'.result = 0
                         /\ ~negotiated'.wrapped
                         /\ context' = context
                         /\ global_device' = global_device
                /\ negotiated'.result = 1 => context'.gpu = negotiated'.gpu ]_vars

C17_Witness ==
    /\ negotiated.op = "create_device2"
    /\ host_gpu = 0
    /\ Len(physical_devices) = 2
    /\ ~filter_physical_device(physical_devices[1])
    /\ negotiated.gpu = 2
    /\ negotiated.result = 1
    /\ context.gpu = 2

\* C18: in create_instance, when the host's instance-creation wrapper returns
\* a null handle, or a required host function pointer is null, the core
\* returns the null instance and the entry and instance cells are left as
\* they were; and whenever create_instance returns a handle that is not null
\* both cells have been written, the instance cell with that handle.
C18_NullInstanceIsFailure ==
    [][ negotiated'.op = "create_instance"
          => /\ negotiated'.failed \in
                    {"vkCreateInstance", "create_instance_wrapper", "get_instance_proc_addr"}
                  => /\ negotiated'.result = 0
                     /\ global_entry' = global_entry
                     /\ global_instance' = global_instance
                     /\ ~crashed'
             /\ negotiated'.failed # "none"
                  => /\ negotiated'.result = 0
                     /\ global_entry' = global_entry
                     /\ global_instance' = global_instance
             /\ negotiated'.result # 0
                  => /\ global_entry'.some
                     /\ global_instance'.some
                     /\ global_instance'.handle = negotiated'.result
                     /\ negotiated'.wrapped ]_vars

C18_Witness ==
    /\ negotiated.op = "create_instance"
    /\ negotiated.failed = "vkCreateInstance"
    /\ negotiated.wrapped
    /\ negotiated.result = 0
    /\ ~global_entry.some
    /\ ~global_instance.some

\* C19: whenever a step of create_device2 fails (a null context pointer, a
\* null host function pointer, a physical-device or queue-family resolution
\* failure, a native call error), create_device2 returns false, leaves every
\* field of the host's retro_vulkan_context unchanged and stores no device in
\* the device cell; create_device always returns false and changes nothing.
C19_NegotiationFailureIsAdvisory ==
    [][ /\ (negotiated'.op = "create_device2" /\ negotiated'.failed # "none")
            => /\ negotiated'.result = 0
               /\ ~crashed'
               /\ context' = context
               /\ global_device' = global_device
        /\ negotiated'.op = "create_device"
            => /\ negotiated'.result = 0
               /\ UNCHANGED <<context, global_entry, global_instance, global_device,
                              crashed, core_vars>> ]_vars

----------------------------------------------------------------------------
(* Properties of the render target, under TargetSpec. *)

\* C20: a render target of width 0, height 0 or a dimension above the
\* device's maximum 2D texture dimension fails with a bounds error before any
\* texture or image view is created, and no size with both dimensions from 1
\* to the maximum is rejected by the bounds check.
C20_TargetBounds ==
    target.result # "none"
        => LET width == target.size[1]
               height == target.size[2]
           IN /\ (width = 0 \/ height = 0 \/ width > target.limit \/ height > target.limit)
                    => /\ target.result = "BoundsError"
                       /\ target.textures = 0
                       /\ target.image_views = 0
              /\ (width \in 1..target.limit /\ height \in 1..target.limit)
                    => target.result # "BoundsError"

C20_Witness ==
    /\ target.result = "BoundsError"
    /\ target.size = <<target.limit + 1, 1>>
    /\ target.textures = 0
    /\ target.image_views = 0

\* A step that resizes the target to the size it has.
ResizeToSameSize ==
    /\ texture_target.some
    /\ target_op'.op = "resize"
    /\ target_op'.result = "Ok"
    /\ target_op'.arg = texture_target.size

\* C21 as stated: creating a render target at size (W,H) and then resizing
\* it to the same (W,H) yields a foreign-image descriptor whose image view
\* handle differs from the original one, while the reported width and height,
\* the format and the image layout are unchanged.
C21_ResizeChangesHandle ==
    [][ ResizeToSameSize
          => /\ texture_target'.retro_image.image_view
                    # texture_target.retro_image.image_view
             /\ texture_target'.size = texture_target.size
             /\ texture_target'.format = texture_target.format
             /\ texture_target'.retro_image.image_layout
                    = texture_target.retro_image.image_layout ]_vars

\* C21 as amended: such a resize destroys the original view once and creates
\* one view over the image of a new texture; the descriptor names that view
\* and that image; the reported width and height, the format and the image
\* layout are unchanged.  The handle is the driver's choice among the handles
\* no live view has, the destroyed view's among them.
C21_ResizeCreatesNewView ==
    [][ ResizeToSameSize
          => LET original == CHOOSE i \in LiveImageViews(image_views) :
                                 image_views[i].handle = texture_target.image_view
                 created == Len(image_views')
             IN /\ created = Len(image_views) + 1
                /\ image_views'[original].destroyed = 1
                /\ image_views'[created].destroyed = 0
                /\ image_views'[created].image = texture_target'.texture
                /\ texture_target'.texture # texture_target.texture
                /\ texture_target'.image_view = image_views'[created].handle
                /\ texture_target'.retro_image.image_view = image_views'[created].handle
                /\ texture_target'.retro_image.create_info.image = texture_target'.texture
                /\ texture_target'.size = texture_target.size
                /\ texture_target'.format = texture_target.format
                /\ texture_target'.retro_image.image_layout
                       = texture_target.retro_image.image_layout ]_vars

C21_Witness ==
    /\ target_op = TargetOp("resize", target.size, "Ok")
    /\ texture_target.some
    /\ texture_target.size = target.size
    /\ Len(image_views) = 2
    /\ image_views[1].destroyed = 1
    /\ texture_target.retro_image.image_view = image_views[1].handle
    /\ texture_target.retro_image.image_layout = "SHADER_READ_ONLY_OPTIMAL"

\* The image view created i-th is the one the target or the backend holds.
ViewHeld(views, held_target, held_backend, i) ==
    /\ \A j \in 1..Len(views) : views[j].handle = views[i].handle => j <= i
    /\ \/ held_target.some /\ held_target.image_view = views[i].handle
       \/ held_backend.some /\ held_backend.image.image_view = views[i].handle

\* C23: every image view the core creates is destroyed by the core exactly
\* once, the replaced view on resize and the last view when the target or the
\* backend is torn down: after each operation a view is live exactly while
\* the target or the backend holds it, and no view is destroyed twice; the
\* core never destroys the image of a texture, nor the device or instance.
C23_ViewsDestroyedOnce ==
    [][ ~crashed'
          => /\ \A i \in 1..Len(image_views') :
                    image_views'[i].destroyed =
                        (IF ViewHeld(image_views', texture_target', vulkan_backend', i)
                         THEN 0 ELSE 1)
             /\ \A i \in 1..Len(textures') : textures'[i].destroyed = 0
             /\ UNCHANGED <<global_instance, global_device>> ]_vars

----------------------------------------------------------------------------
(* Properties of the core, under Spec (continued). *)

\* C22: on the Vulkan path, for each on_run tick in Active the core calls the
\* host's set_image exactly once, after the frame was rendered and submitted,
\* with a descriptor's image view, the semaphore count and pointer (a null
\* pointer exactly when the count is 0) and a source queue family index.
C22_FrameReachesHostThroughSetImage ==
    [][ (ActiveTickStep /\ player.player.renderer = "VulkanWgpuRenderBackend")
          => /\ Count(calls', "set_image") = 1
             /\ \A i \in Positions(calls', "set_image") :
                    /\ \A r \in Positions(calls', "render") : r < i
                    /\ Len(calls'[i].arg) = 4
                    /\ calls'[i].arg[1] # 0
                    /\ calls'[i].arg[2] = 0 <=> calls'[i].arg[3] = 0 ]_vars

\* C25: if the context type in effect at on_hw_context_reset is outside the
\* handled set (not an OpenGL variant and not Vulkan, e.g. Direct3D or None),
\* finalization fails with UnsupportedHardwareContext carrying that type: no
\* renderer is created, nothing is built and the state does not become
\* Active.
C25_UnsupportedContextIsTypedError ==
    [][ (/\ last'.op = "on_hw_context_reset"
         /\ player.tag = "Pending"
         /\ hw_render_callback.context_type \notin OpenGlTypes \cup {"VULKAN"})
          => /\ last'.result = "UnsupportedHardwareContext"
             /\ last'.detail = <<ContextCode(hw_render_callback.context_type)>>
             /\ player'.tag # "Active"
             /\ player' = Uninitialized
             /\ builds' = builds ]_vars

C25_Witness ==
    /\ last.op = "on_hw_context_reset"
    /\ last.from = "Pending"
    /\ last.result = "UnsupportedHardwareContext"
    /\ last.detail = <<7>>
    /\ hw_render_callback.context_type = "DIRECT3D"
    /\ player = Uninitialized
    /\ builds = 0

C27_IdleTickPollsInput ==
    [][ (last'.op = "on_run" /\ player.tag \in {"Uninitialized", "Pending"})
          => /\ CallsNamed(calls', "render") = <<>>
             /\ CallsNamed(calls', "draw_hardware_frame") = <<>>
             /\ CallsNamed(calls', "poll_input") # <<>> ]_vars

\* C28: the present call and the audio batch calls are issued only while the
\* player is Active, and a renderer is constructed only inside
\* on_hw_context_reset in Pending: the builder on_load_game leaves carries
\* none, and only that callback builds an engine, which then carries one.
C28_HostCallsOnlyWhenActive ==
    [][ /\ (/\ last'.result # "Panic"
            /\ \/ CallsNamed(calls', "draw_hardware_frame") # <<>>
               \/ CallsNamed(calls', "batch_audio_samples") # <<>>)
              => player.tag = "Active"
        /\ player'.tag = "Pending" => player'.builder.renderer = "None"
        /\ (builds' > builds \/ (player'.tag = "Active" /\ player.tag # "Active"))
              => /\ last'.op = "on_hw_context_reset"
                 /\ player.tag = "Pending"
                 /\ player'.tag = "Active"
                 /\ player'.player.renderer # "None" ]_vars

\* The host asked for audio from an Active player that renders with Vulkan.
C28_Witness ==
    /\ last.op = "on_write_audio"
    /\ last.from = "Active"
    /\ calls = <<Call("batch_audio_samples", <<RESAMPLED_SAMPLES>>)>>
    /\ builds = 1
    /\ player.tag = "Active"
    /\ player.player.renderer = "VulkanWgpuRenderBackend"

----------------------------------------------------------------------------
(* Properties of the storage backend, under StorageSpec. *)

\* The path the last storage operation resolved for its name has a '..'
\* between two separators (or between a separator and an end of the path).
ResolvedPathHasParentDir ==
    LET path == get_shared_object_path(storage, storage_op.name) IN
    \E i \in 1..Len(Segments(path)) : Segments(path)[i] = <<".", ".">>

\* C24: for each of get, put and remove_key, if the path resolved for the
\* key contains a parent-directory ('..') component, the operation is
\* rejected (get returns nothing, put returns false, remove_key has no
\* effect) and no virtual-filesystem function is called.
C24_ParentDirIsRejected ==
    (storage_op.op \in {"get", "put", "remove_key"} /\ ResolvedPathHasParentDir)
        => /\ storage_op.calls = <<>>
           /\ storage_op.op = "get" => storage_op.result = "None"
           /\ storage_op.op = "put" => storage_op.result = "false"

C24_Witness ==
    /\ storage_op.op = "put"
    /\ storage_op.name = <<"a", "/", ".", ".", "/", "a">>
    /\ storage.base_path = <<"saves">>
    /\ storage_op.result = "false"
    /\ storage_op.calls = <<>>

----------------------------------------------------------------------------
(* Properties of the Vulkan negotiation, under VulkanSpec (continued). *)

\* C29: in every successful queue-family selection the graphics/compute
\* family supports GRAPHICS and COMPUTE and is the lowest-index family that
\* qualifies (Single: the lowest with GRAPHICS+COMPUTE that also presents;
\* Split and GraphicsComputeOnly: the lowest with GRAPHICS+COMPUTE); the
\* presentation family of Single and Split presents to the surface, and for
\* Split it is the lowest-index family that does.
C29_LowestQualifyingFamilies ==
    [][ (QueueFamiliesResolved /\ negotiated'.families.kind # "None")
          => LET F == physical_devices[negotiated'.gpu]
                 GC(i) == F[i].gc
                 P(i) == F[i].present = "true"
                 selected == negotiated'.families
                 gc == queue_family_index(selected) + 1
                 present == presentation_queue_family_index(selected) + 1
             IN /\ gc \in 1..Len(F)
                /\ GC(gc)
                /\ selected.kind = "Single"
                     => /\ P(gc)
                        /\ present = gc
                        /\ \A j \in 1..(gc - 1) : ~(GC(j) /\ P(j))
                /\ selected.kind \in {"Split", "GraphicsComputeOnly"}
                     => \A j \in 1..(gc - 1) : ~GC(j)
                /\ selected.kind = "Split"
                     => /\ present \in 1..Len(F)
                        /\ P(present)
                        /\ \A j \in 1..(present - 1) : ~P(j) ]_vars

\* A Split selection on a device with two GRAPHICS+COMPUTE families and two
\* presenting families, none of them both.
C29_Witness ==
    /\ negotiated.op = "create_device2"
    /\ negotiated.gpu # 0
    /\ negotiated.families = Split(1, 0)
    /\ Len(physical_devices[negotiated.gpu]) = 4
    /\ physical_devices[negotiated.gpu][3].gc
    /\ physical_devices[negotiated.gpu][4].present = "true"

\* C30: when create_device2 succeeds (every step of it does, the host's
\* wrapper returning a device) it returns true and the host's context holds
\* the resolved gpu, the created device, the selected graphics/compute
\* family and queue 0 of it; the presentation index and queue are those of
\* the graphics family for Single, the present family and its queue 0 for
\* Split, and index 0 with a null queue for GraphicsComputeOnly; the device
\* cell holds the same device.
C30_ContextMatchesSelection ==
    [][ (negotiated'.op = "create_device2" /\ negotiated'.failed = "none")
          => LET selected == negotiated'.families IN
             /\ negotiated'.result = 1
             /\ selected.kind \in {"Single", "Split", "GraphicsComputeOnly"}
             /\ context'.gpu = negotiated'.gpu
             /\ context'.gpu \in 1..Len(physical_devices)
             /\ host_gpu # 0 => context'.gpu = host_gpu
             /\ context'.device # 0
             /\ global_device' = [some |-> TRUE, handle |-> context'.device]
             /\ context'.queue_family_index = queue_family_index(selected)
             /\ context'.queue = get_device_queue(context'.queue_family_index)
             /\ selected.kind = "Single"
                  => /\ context'.presentation_queue_family_index
                          = context'.queue_family_index
                     /\ context'.presentation_queue = context'.queue
             /\ selected.kind = "Split"
                  => /\ context'.presentation_queue_family_index = selected.present
                     /\ context'.presentation_queue = get_device_queue(selected.present)
             /\ selected.kind = "GraphicsComputeOnly"
                  => /\ context'.presentation_queue_family_index = 0
                     /\ context'.presentation_queue = 0 ]_vars

\* A successful call that split the families: graphics on family 1, present
\* on family 0, on a gpu the core picked itself.
C30_Witness ==
    /\ negotiated.op = "create_device2"
    /\ negotiated.failed = "none"
    /\ negotiated.result = 1
    /\ host_gpu = 0
    /\ negotiated.families = Split(1, 0)
    /\ context.queue_family_index = 1
    /\ context.queue = get_device_queue(1)
    /\ context.presentation_queue_family_index = 0
    /\ context.presentation_queue = get_device_queue(0)
    /\ global_device = [some |-> TRUE, handle |-> context.device]

----------------------------------------------------------------------------
(* Properties of the render target, under TargetSpec (continued). *)

\* The place of the call named `name` among the calls `cs`.
CallPlace(cs, name) == CHOOSE i \in 1..Len(cs) : cs[i].call = name

\* C31: during a resize the old image view is destroyed before the new
\* texture and the new image view are created, and the descriptor is updated
\* only after the new view exists.
C31_OldViewDestroyedFirst ==
    [][ (target_op'.op = "resize" /\ target_op'.result = "Ok")
          => /\ CallPlace(target_calls', "destroy_image_view")
                  < CallPlace(target_calls', "create_texture")
             /\ CallPlace(target_calls', "destroy_image_view")
                  < CallPlace(target_calls', "create_image_view")
             /\ CallPlace(target_calls', "create_image_view")
                  < CallPlace(target_calls', "set_retro_image") ]_vars

\* The image view that the handle `handle` names: the one created last with
\* it, 0 when there is none.
ViewNamed(views, handle) ==
    LET made == { i \in 1..Len(views) : views[i].handle = handle } IN
    IF made = {} THEN 0 ELSE CHOOSE k \in made : \A j \in made : j <= k

\* C32: after creation and after every resize the descriptor of the target
\* reflects the current backing image: its image view is the target's
\* current image view, which is not destroyed; its create-info is the one
\* that view was created with; the image named in it is the raw image of the
\* target's current texture; its layout is the one it was created with.
C32_DescriptorIsCurrent ==
    (texture_target.some /\ ~crashed)
      => LET descriptor == texture_target.retro_image
             view == ViewNamed(image_views, descriptor.image_view)
         IN /\ descriptor.image_view = texture_target.image_view
            /\ view # 0
            /\ image_views[view].destroyed = 0
            /\ descriptor.create_info = texture_target.create_info
            /\ descriptor.create_info.image = image_views[view].image
            /\ descriptor.create_info.image = texture_target.texture
            /\ ~textures[texture_target.texture].dropped
            /\ descriptor.image_layout = "SHADER_READ_ONLY_OPTIMAL"

\* A resized target of another size than it was created with, over the third
\* texture the graphics layer made.
C32_Witness ==
    /\ ~crashed
    /\ texture_target.some
    /\ target_op.op = "resize"
    /\ target_op.result = "Ok"
    /\ texture_target.texture = 3
    /\ texture_target.retro_image.create_info.image = 3
    /\ texture_target.size # target.size

\* C33: after any sequence of new and resize calls the width and height of
\* the target are at least 1 and at most the device's maximum 2D texture
\* dimension; a resize to a size outside these bounds is rejected like a
\* creation with that size and replaces neither the texture nor the view.
C33_ResizeChecksBounds ==
    [][ /\ texture_target'.some
          => /\ texture_target'.size[1] \in 1..target'.limit
             /\ texture_target'.size[2] \in 1..target'.limit
        /\ (target_op'.op = "resize"
              /\ TextureTarget(target_op'.arg, target.limit).result = "BoundsError")
          => /\ target_op'.result = "BoundsError"
             /\ texture_target' = texture_target
             /\ image_views' = image_views
             /\ textures' = textures ]_vars

----------------------------------------------------------------------------
(* Properties of the process-wide cells, under VulkanSpec. *)

\* C34: the Vulkan entry, instance and device cells have one writer, the
\* environment-setup callback: a step that changes one of them is a step of
\* on_set_environment, and the negotiation callbacks leave them as they are.
C34_CellsHaveOneWriter ==
    [][ (\/ global_entry' # global_entry
         \/ global_instance' # global_instance
         \/ global_device' # global_device)
          => /\ last' # last
             /\ last'.op = "on_set_environment"
             /\ negotiated' = negotiated ]_vars

----------------------------------------------------------------------------
(* Properties of the Vulkan negotiation, under VulkanSpec (device creation). *)

\* C35: create_device2 reports success only when device creation succeeded:
\* whenever it returns true the device written to the host's context and
\* stored in the device cell is not null, and when the host's wrapper returns
\* a null device it returns false and records nothing.
C35_TrueMeansDevice ==
    [][ negotiated'.op = "create_device2"
          => /\ negotiated'.result = 1
                  => /\ context'.device # 0
                     /\ global_device'.some
                     /\ global_device'.handle # 0
             /\ negotiated'.failed = "vkCreateDevice"
                  => /\ negotiated'.result = 0
                     /\ context' = context
                     /\ global_device' = global_device ]_vars

\* C36: create_device2 uses the entry and instance cells only if a preceding
\* create_instance wrote them: called with an empty cell it returns false to
\* the host, the process goes on and nothing is recorded.
C36_EmptyCellsReturnFalse ==
    [][ (/\ negotiated'.op = "create_device2"
         /\ negotiated' # negotiated \/ crashed' # crashed
         /\ ~global_entry.some \/ ~global_instance.some)
          => /\ ~crashed'
             /\ negotiated'.result = 0
             /\ context' = context
             /\ global_device' = global_device ]_vars

\* C37: the device-creation parameters passed to the host's wrapper hold two
\* queue-create entries for a Split selection and one for Single and
\* GraphicsComputeOnly, and the two entries of a Split selection name
\* different families, so no family is named twice.
C37_QueueCreateEntries ==
    [][ (negotiated'.op = "create_device2" /\ negotiated'.wrapped)
          => LET entries == negotiated'.queue_create_infos
                 selected == negotiated'.families
             IN /\ selected.kind = "Split"
                     => /\ Len(entries) = 2
                        /\ selected.graphics_compute # selected.present
                        /\ entries[1].queue_family_index = selected.graphics_compute
                        /\ entries[2].queue_family_index = selected.present
                /\ selected.kind \in {"Single", "GraphicsComputeOnly"}
                     => /\ Len(entries) = 1
                        /\ entries[1].queue_family_index = selected.family
                /\ selected.kind \in {"Single", "Split", "GraphicsComputeOnly"}
                /\ \A i, j \in 1..Len(entries) :
                      i # j => entries[i].queue_family_index # entries[j].queue_family_index
             ]_vars

\* The wrapper was called for a Split selection on a device with four
\* families, with an entry for family 1 and an entry for family 0.
C37_Witness ==
    /\ negotiated.op = "create_device2"
    /\ negotiated.wrapped
    /\ negotiated.families.kind = "Split"
    /\ Len(physical_devices[negotiated.gpu]) = 4
    /\ negotiated.queue_create_infos =
          <<[queue_family_index |-> 1], [queue_family_index |-> 0]>>

----------------------------------------------------------------------------
(* Properties of the core, under Spec (av_info and the event queue). *)

\* C38: in every reachable state a Pending or Active player comes with an
\* av_info that is set, so the av_info lookups of on_run and of
\* finalize_player never fail, for any sequence of host callbacks: on_run
\* never panics, and a finalization that panics does so with av_info set.
C38_AvInfoSetWhenLoaded ==
    /\ player.tag \in {"Pending", "Active"} => av_info.some
    /\ ~(last.op = "on_run" /\ last.result = "Panic")
    /\ (crashed /\ last.op = "on_hw_context_reset") => av_info.some

\* An Active player ticked and presented with the dimensions of its movie.
C38_Witness ==
    /\ player.tag = "Active"
    /\ av_info.some
    /\ last.op = "on_run"
    /\ last.result = "Ok"
    /\ CallsNamed(calls, "draw_hardware_frame") # <<>>
    /\ av_info.max_width = RoundPixels(player.player.movie.width)

\* C39: keyboard events reach the player in the order on_keyboard_event
\* received them, each once: on_keyboard_event only appends to the queue; a
\* tick of an Active player with an elapsed time hands every queued event to
\* the player, oldest first, before the playback tick, and leaves the queue
\* empty; no other callback, and no other tick, touches the queue or hands
\* an event over.
C39_KeyboardEventsInOrder ==
    [][ /\ last'.op = "on_keyboard_event"
            => /\ Len(queued_events') = Len(queued_events) + 1
               /\ SubSeq(queued_events', 1, Len(queued_events)) = queued_events
               /\ EventCode(queued_events'[Len(queued_events')]) = last'.arg[1]
        /\ (last'.op = "on_run" /\ player.tag = "Active" /\ Len(last'.arg) = 2)
            => /\ CallsNamed(calls', "handle_event")
                    = [i \in 1..Len(queued_events) |->
                          Call("handle_event", <<EventCode(queued_events[i])>>)]
               /\ \A i \in 1..Len(calls') :
                     calls'[i].call = "handle_event" => i < CallPlace(calls', "tick")
               /\ queued_events' = <<>>
        /\ (last'.op # "on_keyboard_event"
              /\ ~(last'.op = "on_run" /\ player.tag = "Active" /\ Len(last'.arg) = 2))
            => /\ queued_events' = queued_events
               /\ last'.result # "Panic" => CallsNamed(calls', "handle_event") = <<>>
      ]_vars

\* A key was pressed and released; the tick handed over the press, then the
\* release.
C39_Witness ==
    /\ last.op = "on_run"
    /\ last.from = "Active"
    /\ queued_events = <<>>
    /\ CallsNamed(calls, "handle_event")
          = <<Call("handle_event", <<1>>), Call("handle_event", <<0>>)>>


\* ---------------------------------------------------------------------
\* Properties of the storage backend, under StorageSpec (file handles)
\* ---------------------------------------------------------------------

\* The places in a list of calls where a call of that name is made on the
\* handle.
HandleCalls(cs, name, handle) ==
    { i \in 1..Len(cs) : cs[i].call = name /\ cs[i].arg = <<handle>> }

\* C40: in get and put, when the host supplies a close function, a handle
\* that open returned is closed exactly once before the operation returns,
\* whichever step failed, and nothing is done with the handle after its
\* close; a null handle is never closed.
C40_HandlesClosedOnce ==
    (storage_op.op \in {"get", "put"} /\ storage_op.close # "missing")
        => LET cs == storage_op.calls
               opened == HandleCalls(cs, "open", 1)
               closed == { i \in 1..Len(cs) : cs[i].call = "close" }
           IN  /\ Cardinality(opened) <= 1
               /\ Cardinality(closed) = Cardinality(opened)
               /\ closed = HandleCalls(cs, "close", 1)
               /\ \A c \in closed : \A o \in opened : o < c
               /\ \A c \in closed : \A i \in 1..Len(cs) :
                      (i > c) => cs[i].arg # <<1>>

\* A get whose read came back short, or a put whose write failed, closed
\* the handle once with a close that itself reported an error.
C40_Witness ==
    /\ storage_op.close = "error"
    /\ storage_op.calls # <<>>
    /\ storage_op.calls[Len(storage_op.calls)] = Call("close", <<1>>)
    /\ \/ /\ storage_op.op = "put"
          /\ storage_op.result = "false"
          /\ HandleCalls(storage_op.calls, "write", 1) # {}
       \/ /\ storage_op.op = "get"
          /\ storage_op.result = "None"
          /\ HandleCalls(storage_op.calls, "read", 1) # {}

====
